---------------------------- MODULE Spec2Model ----------------------------
(***************************************************************************)
(* A model of the paper CLI core: the PDF-to-Document parser               *)
(* (src/src/paper/parser.py), the ref registry and inline citation         *)
(* annotator (src/src/paper/renderer.py), and the on-disk caches           *)
(* (src/src/paper/storage.py, highlighter.py, layout.py, models.py).       *)
(*                                                                         *)
(* A Python str is a sequence of one-character strings; offsets are        *)
(* 0-based as in Python, so text[i] in the code is text[i + 1] here.       *)
(* None is modelled by NoPos (-1) for positions and NoKey (-1) for an      *)
(* absent dict key.                                                        *)
(***************************************************************************)
EXTENDS Integers, Sequences, FiniteSets, TLC

NoPos == 0 - 1
NoKey == 0 - 1

----------------------------------------------------------------------------
(* Python string primitives                                                *)

UpperSeq == <<"A","B","C","D","E","F","G","H","I","J","K","L","M",
              "N","O","P","Q","R","S","T","U","V","W","X","Y","Z">>
LowerSeq == <<"a","b","c","d","e","f","g","h","i","j","k","l","m",
              "n","o","p","q","r","s","t","u","v","w","x","y","z">>
UpperChars == {UpperSeq[i] : i \in 1..26}
LowerChars == {LowerSeq[i] : i \in 1..26}
DigitChars == {"0","1","2","3","4","5","6","7","8","9"}
SpaceChars == {" ", "\t", "\n"}

IsAlpha(c) == c \in UpperChars \cup LowerChars
IsDigit(c) == c \in DigitChars
IsSpace(c) == c \in SpaceChars

SetMin(S) == CHOOSE x \in S : \A y \in S : x <= y
SetMax(S) == CHOOSE x \in S : \A y \in S : y <= x
Min2(a, b) == IF a <= b THEN a ELSE b
Max2(a, b) == IF a >= b THEN a ELSE b

\* str.lower() of one character
LowerChar(c) ==
    IF c \in UpperChars
    THEN LowerSeq[CHOOSE i \in 1..26 : UpperSeq[i] = c]
    ELSE c

\* str.lower()
StrLower(text) == [i \in 1..Len(text) |-> LowerChar(text[i])]

\* text[a:b] with Python's clamping of the two bounds
Slice(text, a, b) ==
    LET lo == Max2(0, Min2(a, Len(text)))
        hi == Max2(0, Min2(b, Len(text)))
    IN  IF lo >= hi THEN << >> ELSE SubSeq(text, lo + 1, hi)

\* text.startswith(pat, i)
StartsWithAt(text, pat, i) ==
    /\ i >= 0
    /\ i + Len(pat) <= Len(text)
    /\ \A k \in 1..Len(pat) : text[i + k] = pat[k]

\* text.find(pat, pos): the lowest match index >= pos, or -1
StrFind(text, pat, pos) ==
    LET hits == {i \in pos..(Len(text) - Len(pat)) : StartsWithAt(text, pat, i)}
    IN  IF hits = {} THEN NoPos ELSE SetMin(hits)

\* pat in text
StrContains(text, pat) == StrFind(text, pat, 0) # NoPos

\* str.strip(): drop leading and trailing whitespace
LStripLen(text) ==
    LET non == {i \in 1..Len(text) : ~IsSpace(text[i])}
    IN  IF non = {} THEN Len(text) ELSE SetMin(non) - 1

StrStrip(text) ==
    LET non == {i \in 1..Len(text) : ~IsSpace(text[i])}
    IN  IF non = {} THEN << >> ELSE SubSeq(text, SetMin(non), SetMax(non))

\* str.split(): the maximal runs of non-whitespace, in order
RECURSIVE SplitFrom(_, _)
SplitFrom(text, i) ==
    IF i > Len(text) THEN << >>
    ELSE IF IsSpace(text[i]) THEN SplitFrom(text, i + 1)
    ELSE LET stops == {j \in i..Len(text) : IsSpace(text[j])}
             e == IF stops = {} THEN Len(text) + 1 ELSE SetMin(stops)
         IN  <<SubSeq(text, i, e - 1)>> \o SplitFrom(text, e)

StrSplit(text) == SplitFrom(text, 1)

\* "sep".join(parts)
RECURSIVE StrJoin(_, _)
StrJoin(parts, sep) ==
    IF parts = << >> THEN << >>
    ELSE IF Len(parts) = 1 THEN parts[1]
    ELSE parts[1] \o sep \o StrJoin(Tail(parts), sep)

----------------------------------------------------------------------------
(* parser.py: lines, raw_text, heading detection                           *)
(* A PDF is given by the merged lines _extract_lines returns, its outline  *)
(* (get_toc) and its link annotations (get_links).  Font sizes are in      *)
(* tenths of a point (round(size, 1) * 10).                                *)

\* _build_raw_text: the offset of line k is the sum of the earlier lengths
\* plus one "\n" per earlier line (offset > 0 holds after the first line,
\* lines being non-empty).
RECURSIVE LineStart(_, _)
LineStart(lines, k) ==
    IF k = 1 THEN 0
    ELSE LineStart(lines, k - 1) + Len(lines[k - 1].text) + 1

WithOffsets(lines) ==
    [k \in 1..Len(lines) |->
        [text |-> lines[k].text, font_size |-> lines[k].font_size,
         is_bold |-> lines[k].is_bold, page |-> lines[k].page,
         char_start |-> LineStart(lines, k),
         char_end |-> LineStart(lines, k) + Len(lines[k].text)]]

RawText(lines) == StrJoin([k \in 1..Len(lines) |-> lines[k].text], <<"\n">>)

BuildRawText(lines) == [raw_text |-> RawText(lines), lines |-> WithOffsets(lines)]

\* _detect_body_font_size: the size covering the most characters; a tie goes
\* to the size seen first (Counter.most_common keeps insertion order).
SizeWeight(lines, size) ==
    LET RECURSIVE W(_)
        W(k) == IF k = 0 THEN 0
                ELSE W(k - 1) + (IF lines[k].font_size = size THEN Len(lines[k].text) ELSE 0)
    IN  W(Len(lines))

FirstSeen(lines, size) == SetMin({k \in 1..Len(lines) : lines[k].font_size = size})

DetectBodyFontSize(lines) ==
    IF lines = << >> THEN 100
    ELSE LET sizes == {lines[k].font_size : k \in 1..Len(lines)}
         IN  CHOOSE s \in sizes :
                \A t \in sizes \ {s} :
                    \/ SizeWeight(lines, s) > SizeWeight(lines, t)
                    \/ /\ SizeWeight(lines, s) = SizeWeight(lines, t)
                       /\ FirstSeen(lines, s) < FirstSeen(lines, t)

\* _extract_headings_from_outline: get_toc() entries [level, title, page_num];
\* fewer than 3 entries means no outline headings.
ExtractHeadingsFromOutline(toc) ==
    IF Len(toc) < 3 THEN << >>
    ELSE [k \in 1..Len(toc) |->
            [heading |-> StrStrip(toc[k].title), level |-> toc[k].level,
             page |-> toc[k].page_num - 1,
             char_start |-> NoKey, char_end |-> NoKey, font_size |-> NoKey]]

\* The line _resolve_outline_offsets picks for one heading: the first exact
\* (case-insensitive) match on the page, else the substring match of the
\* highest score len(heading)/max(len(line),1) (the first one on a tie), else 0.
RECURSIVE BestLineScan(_, _, _, _, _, _)
BestLineScan(lines, page, heading_lower, k, best, score) ==
    \* score is the pair <<numerator, denominator>> of best_score
    IF k > Len(lines) THEN best
    ELSE IF lines[k].page # page
         THEN BestLineScan(lines, page, heading_lower, k + 1, best, score)
    ELSE LET ln_lower == StrStrip(StrLower(lines[k].text))
             num == Len(heading_lower)
             den == Max2(Len(ln_lower), 1)
         IN  IF ln_lower = heading_lower THEN k
             ELSE IF /\ (StrContains(ln_lower, heading_lower) \/ StrContains(heading_lower, ln_lower))
                     /\ num * score[2] > score[1] * den
                  THEN BestLineScan(lines, page, heading_lower, k + 1, k, <<num, den>>)
                  ELSE BestLineScan(lines, page, heading_lower, k + 1, best, score)

BestLine(lines, h) ==
    BestLineScan(lines, h.page, StrStrip(StrLower(h.heading)), 1, 0, <<0, 1>>)

FirstLineOnPage(lines, page) ==
    LET on == {k \in 1..Len(lines) : lines[k].page = page}
    IN  IF on = {} THEN 0 ELSE SetMin(on)

\* _resolve_outline_offsets: a heading whose page has no line is kept without
\* char_start/char_end.
ResolveOne(lines, h) ==
    LET b == BestLine(lines, h)
        f == FirstLineOnPage(lines, h.page)
        k == IF b # 0 THEN b ELSE f
    IN  IF k = 0 THEN h
        ELSE [h EXCEPT !.char_start = lines[k].char_start,
                       !.char_end = lines[k].char_end]

ResolveOutlineOffsets(headings, lines) ==
    [k \in 1..Len(headings) |-> ResolveOne(lines, headings[k])]

\* The length of the run of digits of text that starts at 0-based offset i
DigitRun(text, i) ==
    LET stops == {j \in i..(Len(text) - 1) : ~IsDigit(text[j + 1])}
    IN  IF i >= Len(text) THEN 0
        ELSE IF stops = {} THEN Len(text) - i ELSE SetMin(stops) - i

\* The length of the run of whitespace of text that starts at 0-based offset i
SpaceRun(text, i) ==
    LET stops == {j \in i..(Len(text) - 1) : ~IsSpace(text[j + 1])}
    IN  IF i >= Len(text) THEN 0
        ELSE IF stops = {} THEN Len(text) - i ELSE SetMin(stops) - i

\* Where a prefix of the shape [A-Z]? \d* \.? \d* that starts at offset 0 ends
\* (the greedy match).
NumPrefixEnd(text) ==
    LET a == IF Len(text) > 0 /\ text[1] \in UpperChars THEN 1 ELSE 0
        b == a + DigitRun(text, a)
        c == IF b < Len(text) /\ text[b + 1] = "." THEN b + 1 ELSE b
    IN  c + DigitRun(text, c)

\* _SECTION_NUM_RE = ^[A-Z]?\.?\d*\.?\d*$ : "1", "2.1", "A", "A.1", and ""
SectionNumMatch(text) ==
    LET a == IF Len(text) > 0 /\ text[1] \in UpperChars THEN 1 ELSE 0
        b == IF a < Len(text) /\ text[a + 1] = "." THEN a + 1 ELSE a
        c == b + DigitRun(text, b)
        d == IF c < Len(text) /\ text[c + 1] = "." THEN c + 1 ELSE c
    IN  d + DigitRun(text, d) = Len(text)

\* _ARXIV_HEADER_RE.search: arXiv:\d+\.\d+ in any case, anywhere
ArxivHeaderSearch(text) ==
    LET low == StrLower(text)
        tag == <<"a","r","x","i","v",":">>
    IN  \E i \in 0..Len(text) :
            /\ StartsWithAt(low, tag, i)
            /\ LET n1 == DigitRun(text, i + 6)
               IN  /\ n1 >= 1
                   /\ \E m \in 1..n1 :
                         /\ StartsWithAt(text, <<".">>, i + 6 + m)
                         /\ DigitRun(text, i + 7 + m) >= 1

\* _FIGURE_TABLE_RE.match: ^(Figure|Table|Fig\.)\s+\d+ in any case
FigureTableMatch(text) ==
    LET low == StrLower(text)
    IN  \E w \in {<<"f","i","g","u","r","e">>, <<"t","a","b","l","e">>, <<"f","i","g",".">>} :
            /\ StartsWithAt(low, w, 0)
            /\ SpaceRun(text, Len(w)) >= 1
            /\ DigitRun(text, Len(w) + SpaceRun(text, Len(w))) >= 1

\* The author-list symbols of _is_false_positive_heading, each one character,
\* written by code point.
AffiliationSymbols ==
    {"U+2217", "U+2020", "U+2663", "U+2662", "U+2660", "U+2666", "U+266F", "U+266E"}

EndsWith(text, c) == Len(text) > 0 /\ text[Len(text)] = c

\* _is_false_positive_heading (its page and is_first_heading arguments are
\* never read)
IsFalsePositiveHeading(text) ==
    LET colon_idx == StrFind(text, <<":", " ">>, 0)
        stripped == StrStrip(text)
    IN  \/ ArxivHeaderSearch(text)
        \/ FigureTableMatch(text)
        \/ Len(text) > 80
        \/ colon_idx >= 0 /\ Len(text) - colon_idx > 4
        \/ /\ EndsWith(text, ".")
           /\ ~(DigitRun(text, 0) >= 1
                /\ StartsWithAt(text, <<".">>, DigitRun(text, 0))
                /\ SpaceRun(text, DigitRun(text, 0) + 1) >= 1)
        \/ StrContains(text, <<".", " ">>) /\ Len(text) > 60
        \/ /\ Len(text) > 0
           /\ \A i \in 1..Len(text) :
                 IsDigit(text[i]) \/ IsSpace(text[i]) \/ text[i] \in {".", ",", "-", "+", "%"}
           /\ ~(SectionNumMatch(stripped) /\ Len(stripped) <= 3)
        \/ \E i \in 1..Len(text) : text[i] \in AffiliationSymbols
        \/ EndsWith(text, ",") \/ EndsWith(text, "?") \/ EndsWith(text, "-")

Keywords ==
    { <<"a","b","s","t","r","a","c","t">>,
      <<"i","n","t","r","o","d","u","c","t","i","o","n">>,
      <<"r","e","l","a","t","e","d"," ","w","o","r","k">>,
      <<"b","a","c","k","g","r","o","u","n","d">>,
      <<"m","e","t","h","o","d">>, <<"a","p","p","r","o","a","c","h">>,
      <<"m","o","d","e","l">>, <<"e","x","p","e","r","i","m","e","n","t">>,
      <<"r","e","s","u","l","t">>, <<"d","i","s","c","u","s","s","i","o","n">>,
      <<"c","o","n","c","l","u","s","i","o","n">>,
      <<"a","c","k","n","o","w","l","e","d","g","e","m","e","n","t">>,
      <<"r","e","f","e","r","e","n","c","e">>, <<"a","p","p","e","n","d","i","x">>,
      <<"s","u","p","p","l","e","m","e","n","t","a","r","y">>,
      <<"e","v","a","l","u","a","t","i","o","n">>, <<"a","n","a","l","y","s","i","s">>,
      <<"l","i","m","i","t","a","t","i","o","n">>,
      <<"f","u","t","u","r","e"," ","w","o","r","k">>,
      <<"o","v","e","r","v","i","e","w">>, <<"p","r","e","l","i","m","i","n","a","r">>,
      <<"s","e","t","u","p">>, <<"d","a","t","a","s","e","t">>,
      <<"t","r","a","i","n","i","n","g">>,
      <<"i","m","p","l","e","m","e","n","t","a","t","i","o","n">> }

IsAlphaWord(w) == Len(w) > 0 /\ \A i \in 1..Len(w) : IsAlpha(w[i])

\* _looks_like_section_heading (text is a non-empty line)
LooksLikeSectionHeading(text0) ==
    LET text == StrStrip(text0)
        pe == NumPrefixEnd(text)
        words == StrSplit(text)
        subst == SelectSeq(words, LAMBDA w : Len(w) > 3 /\ IsAlphaWord(w))
        cap == text[1] \in UpperChars
    IN  \/ /\ SpaceRun(text, pe) >= 1
           /\ pe + SpaceRun(text, pe) < Len(text)
           /\ text[pe + SpaceRun(text, pe) + 1] \in UpperChars
        \/ cap /\ Len(text) < 40 /\ \E kw \in Keywords : StrContains(StrLower(text), kw)
        \/ SectionNumMatch(text)
        \/ /\ Len(text) < 50 /\ cap /\ ~EndsWith(text, ".")
           /\ ~StrContains(text, <<".", " ">>)
           /\ \/ Len(words) <= 3
              \/ subst # << >> /\ subst[Len(subst)][1] \in UpperChars

\* _extract_headings_from_fonts.  heading_threshold = body_size * 1.15 and the
\* bold test body_size * 0.95 are compared in hundredths; the title test
\* font_size >= title_size - 1.0 in tenths.
OverThreshold(size, body_size) == size * 100 > body_size * 115

CandidateSizes(lines, body_size) ==
    {lines[k].font_size : k \in {j \in 1..Len(lines) :
        OverThreshold(lines[j].font_size, body_size) /\ ~IsFalsePositiveHeading(lines[j].text)}}

\* size_to_level: the largest candidate size is level 1, the next level 2, ...
SizeToLevel(sizes, size) ==
    IF size \in sizes THEN 1 + Cardinality({t \in sizes : t > size}) ELSE 1

TitleSize(lines) ==
    LET page0 == {k \in 1..Len(lines) : lines[k].page = 0 /\ ~ArxivHeaderSearch(lines[k].text)}
    IN  IF page0 = {} THEN 0 ELSE SetMax({lines[k].font_size : k \in page0})

RECURSIVE FontHeadingsFrom(_, _, _, _)
FontHeadingsFrom(lines, body_size, k, seen_first_section) ==
    IF k > Len(lines) THEN << >>
    ELSE
    LET ln == lines[k]
        sizes == CandidateSizes(lines, body_size)
        big == OverThreshold(ln.font_size, body_size)
        is_heading ==
            /\ ~IsFalsePositiveHeading(ln.text)
            /\ IF big
               THEN /\ ~(ln.font_size + 10 >= TitleSize(lines) /\ ln.page = 0)
                    /\ ~(ln.page = 0 /\ ~seen_first_section /\ ~LooksLikeSectionHeading(ln.text))
               ELSE /\ ln.is_bold
                    /\ ln.font_size * 100 >= body_size * 95
                    /\ LooksLikeSectionHeading(ln.text)
        level == IF big THEN SizeToLevel(sizes, ln.font_size) ELSE Cardinality(sizes) + 1
    IN  IF is_heading
        THEN <<[heading |-> ln.text, level |-> level, page |-> ln.page,
                char_start |-> ln.char_start, char_end |-> ln.char_end,
                font_size |-> ln.font_size]>>
             \o FontHeadingsFrom(lines, body_size, k + 1, TRUE)
        ELSE FontHeadingsFrom(lines, body_size, k + 1, seen_first_section)

ExtractHeadingsFromFonts(lines, body_size) == FontHeadingsFrom(lines, body_size, 1, FALSE)

\* _TRAILING_CONJUNCTIONS
TrailingConjunctions ==
    { <<"a","n","d">>, <<"o","r">>, <<"o","f">>, <<"f","o","r">>, <<"i","n">>,
      <<"t","h","e">>, <<"w","i","t","h">>, <<"t","o">>, <<"a">>, <<"a","n">>,
      <<"o","n">>, <<"b","y">>}

Abs(x) == IF x < 0 THEN 0 - x ELSE x

\* heading.split()[-1].lower() in _TRAILING_CONJUNCTIONS (the heading has a word)
EndsWithConjunction(heading) ==
    LET words == StrSplit(heading)
    IN  StrLower(words[Len(words)]) \in TrailingConjunctions

\* Both headings carry a font_size and are on one page, whatever their sizes
SameRunAnySize(a, b) ==
    /\ b.page = a.page
    /\ b.font_size # NoKey
    /\ a.font_size # NoKey

\* Both headings carry a font_size, are on one page and within 1pt
SameRun(a, b) ==
    /\ b.page = a.page
    /\ b.font_size # NoKey
    /\ a.font_size # NoKey
    /\ Abs(b.font_size - a.font_size) < 10

\* The inner while loop of _merge_heading_fragments: absorb headings[i..] into
\* combined while the combined heading looks incomplete.  Returns the
\* combined heading and the index of the first heading not absorbed.
RECURSIVE AbsorbMore(_, _, _, _)
AbsorbMore(headings, combined, next_h, i) ==
    IF /\ i <= Len(headings)
       /\ headings[i].page = combined.page
       /\ headings[i].font_size # NoKey
       /\ Abs(headings[i].font_size - next_h.font_size) < 10
       /\ \/ EndsWithConjunction(combined.heading)
          \/ /\ Len(StrSplit(headings[i].heading)) = 1
             /\ ~SectionNumMatch(StrStrip(headings[i].heading))
    THEN AbsorbMore(headings,
                    [combined EXCEPT !.heading = @ \o <<" ">> \o headings[i].heading,
                                     !.char_end = headings[i].char_end],
                    next_h, i + 1)
    ELSE [combined |-> combined, next |-> i]

Combine(h, next_h) ==
    [heading |-> h.heading \o <<" ">> \o next_h.heading,
     level |-> Min2(h.level, next_h.level),
     page |-> h.page,
     char_start |-> h.char_start,
     char_end |-> next_h.char_end,
     font_size |-> NoKey]

\* _merge_heading_fragments from index i on.  raised: the IndexError of
\* h["heading"].split()[-1] on a heading without a word.
RECURSIVE MergeFrom(_, _)
MergeFrom(headings, i) ==
    IF i > Len(headings) THEN [raised |-> FALSE, merged |-> << >>]
    ELSE
    LET h == headings[i]
        has_next == i + 1 <= Len(headings)
    IN  IF has_next /\ SectionNumMatch(StrStrip(h.heading)) /\ SameRun(h, headings[i + 1])
        THEN LET a == AbsorbMore(headings, Combine(h, headings[i + 1]), headings[i + 1], i + 2)
                 rest == MergeFrom(headings, a.next)
             IN  [raised |-> rest.raised, merged |-> <<a.combined>> \o rest.merged]
        ELSE IF has_next /\ StrSplit(h.heading) = << >>
        THEN [raised |-> TRUE, merged |-> << >>]
        ELSE IF has_next /\ EndsWithConjunction(h.heading) /\ SameRun(h, headings[i + 1])
        THEN LET rest == MergeFrom(headings, i + 2)
             IN  [raised |-> rest.raised,
                  merged |-> <<Combine(h, headings[i + 1])>> \o rest.merged]
        ELSE LET rest == MergeFrom(headings, i + 1)
             IN  [raised |-> rest.raised, merged |-> <<h>> \o rest.merged]

MergeHeadingFragments(headings) ==
    IF Len(headings) < 2 THEN [raised |-> FALSE, merged |-> headings]
    ELSE MergeFrom(headings, 1)

----------------------------------------------------------------------------
(* parser.py: sections and sentences                                       *)

\* dict.get(key, default) for a key that may be absent
Get(v, default) == IF v = NoKey THEN default ELSE v

\* page_end of _segment_sections: the largest page of a line that starts
\* inside [start, end), and at least page_start
PageEnd(lines, start, end, page_start) ==
    SetMax({page_start} \cup
           {lines[k].page : k \in {j \in 1..Len(lines) :
               lines[j].char_start >= start /\ lines[j].char_start < end}})

\* The body of the loop of _segment_sections for heading i
SectionOf(raw_text, lines, headings, i) ==
    LET h == headings[i]
        start == Get(h.char_start, 0)
        end == IF i + 1 <= Len(headings)
               THEN Get(headings[i + 1].char_start, Len(raw_text))
               ELSE Len(raw_text)
        content0 == StrStrip(Slice(raw_text, start, end))
        content == IF StartsWithAt(content0, h.heading, 0)
                   THEN StrStrip(Slice(content0, Len(h.heading), Len(content0)))
                   ELSE content0
    IN  [heading |-> h.heading, level |-> h.level, content |-> content,
         sentences |-> << >>,
         spans |-> <<[start |-> start, end |-> end]>>,
         page_start |-> Get(h.page, 0),
         page_end |-> PageEnd(lines, start, end, Get(h.page, 0))]

FullDocumentHeading ==
    <<"(","F","u","l","l"," ","D","o","c","u","m","e","n","t",")">>

\* _segment_sections
SegmentSections(raw_text, lines, headings) ==
    IF headings = << >>
    THEN <<[heading |-> FullDocumentHeading, level |-> 1, content |-> raw_text,
            sentences |-> << >>,
            spans |-> <<[start |-> 0, end |-> Len(raw_text)]>>,
            page_start |-> IF lines = << >> THEN 0 ELSE lines[1].page,
            page_end |-> IF lines = << >> THEN 0 ELSE lines[Len(lines)].page]>>
    ELSE [i \in 1..Len(headings) |-> SectionOf(raw_text, lines, headings, i)]

\* pysbd.Segmenter(language="en", clean=False).segment(content): consecutive
\* pieces whose concatenation is content, cut after a line break and after
\* the whitespace that follows a ".", "?" or "!".
RECURSIVE SegmentFrom(_, _)
SegmentFrom(content, i) ==
    \* i: 1-based index of the first character of the next piece
    IF i > Len(content) THEN << >>
    ELSE LET cuts == {j \in i..Len(content) :
                        \/ content[j] = "\n"
                        \/ /\ IsSpace(content[j])
                           /\ j < Len(content) /\ ~IsSpace(content[j + 1])
                           /\ \E m \in i..(j - 1) :
                                 /\ content[m] \in {".", "?", "!"}
                                 /\ \A n \in (m + 1)..j : IsSpace(content[n])}
             e == IF cuts = {} THEN Len(content) ELSE SetMin(cuts)
         IN  <<SubSeq(content, i, e)>> \o SegmentFrom(content, e + 1)

PysbdSegment(content) == SegmentFrom(content, 1)

\* The loop of _split_sentences over one section's sentence texts: each
\* stripped text is searched from the end of the previous match and its span
\* is section_start + the index found in section.content.
RECURSIVE SentencesFrom(_, _, _, _, _)
SentencesFrom(section, texts, k, offset, acc) ==
    IF k > Len(texts) THEN acc
    ELSE LET sent_text == StrStrip(texts[k])
             found == StrFind(section.content, sent_text, offset)
             idx == IF found = NoPos THEN offset ELSE found
             section_start == IF section.spans # << >> THEN section.spans[1].start ELSE 0
             abs_start == section_start + idx
             abs_end == abs_start + Len(sent_text)
         IN  IF sent_text = << >>
             THEN SentencesFrom(section, texts, k + 1, offset, acc)
             ELSE SentencesFrom(section, texts, k + 1, idx + Len(sent_text),
                     Append(acc, [text |-> sent_text,
                                  span |-> [start |-> abs_start, end |-> abs_end],
                                  page |-> section.page_start]))

SplitSection(section) ==
    IF section.content = << >> THEN section
    ELSE [section EXCEPT !.sentences =
            SentencesFrom(section, PysbdSegment(section.content), 1, 0, << >>)]

\* _split_sentences
SplitSentences(sections) == [i \in 1..Len(sections) |-> SplitSection(sections[i])]

----------------------------------------------------------------------------
(* parser.py: links and citations                                          *)
(* A link annotation is [kind, page, line, text, uri, dest, target_page]:  *)
(* line is the index of the first line of its page that its rectangle      *)
(* intersects (0: none) and text the page text under the rectangle.        *)

\* _find_anchor: the text and span of the line the rectangle intersects
FindAnchor(lines, line) ==
    IF line = 0 THEN [text |-> << >>, span |-> [start |-> 0, end |-> 0]]
    ELSE [text |-> lines[line].text,
          span |-> [start |-> lines[line].char_start, end |-> lines[line].char_end]]

MkLink(kind, text, url, target_page, page, span, dest_name) ==
    [kind |-> kind, text |-> text, url |-> url, target_page |-> target_page,
     page |-> page, span |-> span, dest_name |-> dest_name]

\* The first loop of _extract_links: URI links (first appearance of each URL)
\* and GOTO links, in annotation order.
RECURSIVE UriGotoLinks(_, _, _, _)
UriGotoLinks(lines, annots, k, seen_urls) ==
    IF k > Len(annots) THEN << >>
    ELSE LET a == annots[k]
             anchor == FindAnchor(lines, a.line)
         IN  IF a.kind = "uri"
             THEN IF a.uri = << >> \/ a.uri \in seen_urls
                  THEN UriGotoLinks(lines, annots, k + 1, seen_urls)
                  ELSE <<MkLink("external", anchor.text, a.uri, NoPos, a.page, anchor.span, << >>)>>
                       \o UriGotoLinks(lines, annots, k + 1, seen_urls \cup {a.uri})
             ELSE IF a.kind = "goto"
             THEN <<MkLink("internal", anchor.text, << >>, a.target_page, a.page, anchor.span, << >>)>>
                  \o UriGotoLinks(lines, annots, k + 1, seen_urls)
             ELSE UriGotoLinks(lines, annots, k + 1, seen_urls)

\* named_in_order: the LINK_NAMED annotations with a non-empty nameddest
NamedInOrder(annots) == SelectSeq(annots, LAMBDA a : a.kind = "named" /\ a.dest # << >>)

\* re.sub(r",\s+", ", ", text)
RECURSIVE SubCommaSpace(_, _)
SubCommaSpace(text, i) ==
    \* i: 0-based offset
    IF i >= Len(text) THEN << >>
    ELSE IF text[i + 1] = "," /\ SpaceRun(text, i + 1) >= 1
    THEN <<",", " ">> \o SubCommaSpace(text, i + 1 + SpaceRun(text, i + 1))
    ELSE <<text[i + 1]>> \o SubCommaSpace(text, i + 1)

\* re.sub(r"\s+\)", ")", text)
RECURSIVE SubSpaceParen(_, _)
SubSpaceParen(text, i) ==
    IF i >= Len(text) THEN << >>
    ELSE IF SpaceRun(text, i) >= 1 /\ StartsWithAt(text, <<")">>, i + SpaceRun(text, i))
    THEN SubSpaceParen(text, i + SpaceRun(text, i))
    ELSE <<text[i + 1]>> \o SubSpaceParen(text, i + 1)

\* The anchor text of a group of fragments named[i..j-1]
GroupText(named, i, j) ==
    LET parts == SelectSeq([k \in 1..(j - i) |-> StrStrip(named[i + k - 1].text)],
                           LAMBDA t : t # << >>)
    IN  SubSpaceParen(SubCommaSpace(StrJoin(parts, <<" ">>), 0), 0)

\* The end (exclusive) of the group of consecutive same-dest, same-page
\* fragments that starts at i
GroupEnd(named, i) ==
    LET stops == {j \in (i + 1)..Len(named) :
                    ~(named[j].dest = named[i].dest /\ named[j].page = named[i].page)}
    IN  IF stops = {} THEN Len(named) + 1 ELSE SetMin(stops)

IsCiteDest(dest) == StartsWithAt(dest, <<"c","i","t","e",".">>, 0)

\* The second loop of _extract_links: one Link per group, every group of a
\* citation destination and the first group of any other destination.
RECURSIVE NamedLinks(_, _, _, _)
NamedLinks(lines, named, i, seen_named) ==
    IF i > Len(named) THEN << >>
    ELSE LET j == GroupEnd(named, i)
             first_span == FindAnchor(lines, named[i].line).span
             last_span == FindAnchor(lines, named[j - 1].line).span
             link_span == IF j - i > 1
                          THEN [start |-> first_span.start,
                                end |-> Max2(first_span.end, last_span.end)]
                          ELSE first_span
             is_citation == IsCiteDest(named[i].dest)
         IN  IF is_citation \/ named[i].dest \notin seen_named
             THEN <<MkLink(IF is_citation THEN "citation" ELSE "internal",
                           GroupText(named, i, j), << >>, named[i].target_page,
                           named[i].page, link_span, named[i].dest)>>
                  \o NamedLinks(lines, named, j, seen_named \cup {named[i].dest})
             ELSE NamedLinks(lines, named, j, seen_named)

\* _extract_links
ExtractLinks(lines, annots) ==
    UriGotoLinks(lines, annots, 1, {}) \o NamedLinks(lines, NamedInOrder(annots), 1, {})

\* The separators of _CITATION_RE: , ; - and the en dash (by code point)
CiteSeparators == {",", ";", "-", "U+2013"}

\* The tail (?:\s*[,;-]\s*\d+)* then "]" of _CITATION_RE from offset i: the
\* offset after the closing bracket, or NoPos
RECURSIVE CiteTail(_, _)
CiteTail(text, i) ==
    LET s1 == i + SpaceRun(text, i)
        s2 == s1 + 1 + SpaceRun(text, s1 + 1)
    IN  IF StartsWithAt(text, <<"]">>, i) THEN i + 1
        ELSE IF /\ s1 < Len(text) /\ text[s1 + 1] \in CiteSeparators
                /\ DigitRun(text, s2) >= 1
        THEN CiteTail(text, s2 + DigitRun(text, s2))
        ELSE NoPos

\* _CITATION_RE matched at offset i: the offset after the match, or NoPos
CiteMatchEnd(text, i) ==
    IF StartsWithAt(text, <<"[">>, i) /\ DigitRun(text, i + 1) >= 1
    THEN CiteTail(text, i + 1 + DigitRun(text, i + 1))
    ELSE NoPos

\* Every match of _CITATION_RE yields a link, repeated markers included
RECURSIVE DetectFromEvery(_, _, _)
DetectFromEvery(raw_text, i, seen) ==
    IF i >= Len(raw_text) THEN << >>
    ELSE LET e == CiteMatchEnd(raw_text, i)
         IN  IF e = NoPos THEN DetectFromEvery(raw_text, i + 1, seen)
             ELSE <<MkLink("citation", Slice(raw_text, i, e), << >>, NoPos, 0,
                           [start |-> i, end |-> e], << >>)>>
                  \o DetectFromEvery(raw_text, e, seen)

\* _detect_citations: finditer leftmost non-overlapping matches, the first
\* occurrence of each marker text kept, page 0
RECURSIVE DetectFrom(_, _, _)
DetectFrom(raw_text, i, seen) ==
    IF i >= Len(raw_text) THEN << >>
    ELSE LET e == CiteMatchEnd(raw_text, i)
             marker == Slice(raw_text, i, e)
         IN  IF e = NoPos THEN DetectFrom(raw_text, i + 1, seen)
             ELSE IF marker \in seen THEN DetectFrom(raw_text, e, seen)
             ELSE <<MkLink("citation", marker, << >>, NoPos, 0,
                           [start |-> i, end |-> e], << >>)>>
                  \o DetectFrom(raw_text, e, seen \cup {marker})

DetectCitations(raw_text) == DetectFrom(raw_text, 0, {})

\* _extract_document, steps 1-7 and 10, as one function of the PDF
\* [lines, toc, annots] (metadata and page sizes are not modelled).  raised
\* is the IndexError of _merge_heading_fragments.
DetectHeadings(pdf) ==
    LET built == BuildRawText(pdf.lines)
        outline == ExtractHeadingsFromOutline(pdf.toc)
    IN  IF outline # << >>
        THEN ResolveOutlineOffsets(outline, built.lines)
        ELSE ExtractHeadingsFromFonts(built.lines, DetectBodyFontSize(pdf.lines))

MkDocument(sections, raw_text, links) ==
    [sections |-> sections, raw_text |-> raw_text, links |-> links,
     layout_elements |-> << >>]

ExtractDocument(pdf) ==
    LET built == BuildRawText(pdf.lines)
        m == MergeHeadingFragments(DetectHeadings(pdf))
    IN  [raised |-> m.raised,
         document |->
            IF m.raised THEN MkDocument(<< >>, << >>, << >>)
            ELSE MkDocument(
                    SplitSentences(SegmentSections(built.raw_text, built.lines, m.merged)),
                    built.raw_text,
                    ExtractLinks(built.lines, pdf.annots) \o DetectCitations(built.raw_text))]

----------------------------------------------------------------------------
(* renderer.py: the ref registry                                           *)

NumStr == <<"1", "2", "3", "4", "5", "6", "7", "8", "9">>

\* f"{prefix}{n}"
RefId(prefix, n) == prefix \o NumStr[n]

RefEntry(ref_id, kind, label, target) ==
    [ref_id |-> ref_id, kind |-> kind, label |-> label, target |-> target]

\* Sections: s1..sN in document order
SectionEntries(doc) ==
    [i \in 1..Len(doc.sections) |->
        RefEntry(RefId("s", i), "section", doc.sections[i].heading, doc.sections[i].heading)]

RefPrefix(kind) ==
    CASE kind = "figure" -> "f" [] kind = "table" -> "t" [] kind = "equation" -> "eq"

\* str.title() of the three kinds
KindTitle(kind) ==
    CASE kind = "figure" -> <<"F","i","g","u","r","e">>
      [] kind = "table" -> <<"T","a","b","l","e">>
      [] kind = "equation" -> <<"E","q","u","a","t","i","o","n">>

\* Layout elements: a counter per kind, in the order of doc.layout_elements
LayoutEntries(doc) ==
    [i \in 1..Len(doc.layout_elements) |->
        LET elem == doc.layout_elements[i]
            n == Cardinality({j \in 1..i : doc.layout_elements[j].kind = elem.kind})
        IN  RefEntry(RefId(RefPrefix(elem.kind), n), elem.kind,
                     IF elem.label # << >> THEN elem.label
                     ELSE KindTitle(elem.kind) \o <<" ", NumStr[n]>>,
                     elem.label)]

\* External links: the first link of each URL, in order
RECURSIVE ExternalEntries(_, _, _, _)
ExternalEntries(links, k, seen_urls, ext_idx) ==
    IF k > Len(links) THEN << >>
    ELSE IF links[k].kind = "external" /\ links[k].url \notin seen_urls
    THEN <<RefEntry(RefId("e", ext_idx + 1), "external",
                    IF links[k].text # << >> THEN links[k].text ELSE links[k].url,
                    links[k].url)>>
         \o ExternalEntries(links, k + 1, seen_urls \cup {links[k].url}, ext_idx + 1)
    ELSE ExternalEntries(links, k + 1, seen_urls, ext_idx)

\* Citations: the first link of each marker text, in order
RECURSIVE CitationEntries(_, _, _, _)
CitationEntries(links, k, seen_cites, cite_idx) ==
    IF k > Len(links) THEN << >>
    ELSE IF links[k].kind = "citation" /\ links[k].text \notin seen_cites
    THEN <<RefEntry(RefId("c", cite_idx + 1), "citation", links[k].text, links[k].text)>>
         \o CitationEntries(links, k + 1, seen_cites \cup {links[k].text}, cite_idx + 1)
    ELSE CitationEntries(links, k + 1, seen_cites, cite_idx)

\* build_ref_registry with its last two loops exchanged
BuildRefRegistryCitesFirst(doc) ==
    SectionEntries(doc) \o LayoutEntries(doc)
    \o CitationEntries(doc.links, 1, {}, 0) \o ExternalEntries(doc.links, 1, {}, 0)

\* build_ref_registry
BuildRefRegistry(doc) ==
    SectionEntries(doc) \o LayoutEntries(doc)
    \o ExternalEntries(doc.links, 1, {}, 0) \o CitationEntries(doc.links, 1, {}, 0)

\* label_to_ref[label]: the ref_id of the last citation entry with that
\* label, or "" when there is none
LabelToRef(registry, label) ==
    LET hits == {k \in 1..Len(registry) :
                    registry[k].kind = "citation" /\ registry[k].label = label}
    IN  IF hits = {} THEN "" ELSE registry[SetMax(hits)].ref_id

\* (start, end, ref_id) tuples compare as Python tuples do; ref_ids c1..c9
\* compare as their numbers do.
RefNum(ref_id) == CHOOSE n \in 1..9 : ref_id = RefId("c", n)

TupleLess(a, b) ==
    \/ a[1] < b[1]
    \/ a[1] = b[1] /\ a[2] < b[2]
    \/ a[1] = b[1] /\ a[2] = b[2] /\ RefNum(a[3]) < RefNum(b[3])

\* list.sort(): the stable sort under the strict order less.  An element
\* comes after those that are less and after the earlier ones it ties with.
StableSort(seq, less(_, _)) ==
    LET rank(i) == 1 + Cardinality({j \in 1..Len(seq) :
                        \/ less(seq[j], seq[i])
                        \/ ~less(seq[i], seq[j]) /\ j < i})
    IN  [r \in 1..Len(seq) |-> seq[CHOOSE i \in 1..Len(seq) : rank(i) = r]]

\* _build_cite_span_index
BuildCiteSpanIndex(doc, registry) ==
    LET cites == SelectSeq(doc.links,
                    LAMBDA l : l.kind = "citation" /\ LabelToRef(registry, l.text) # "")
    IN  StableSort([k \in 1..Len(cites) |->
                    <<cites[k].span.start, cites[k].span.end, LabelToRef(registry, cites[k].text)>>],
                TupleLess)

----------------------------------------------------------------------------
(* renderer.py: inline citation placement                                  *)

LowerRun(text, i) ==
    LET stops == {j \in i..(Len(text) - 1) : text[j + 1] \notin LowerChars}
    IN  IF i >= Len(text) THEN 0
        ELSE IF stops = {} THEN Len(text) - i ELSE SetMin(stops) - i

\* re.match(r"\(?\s*([A-Z][a-z]+)", link.text): the surname, or << >> (None)
CiteSurname(link_text) ==
    LET a == IF StartsWithAt(link_text, <<"(">>, 0) THEN 1 ELSE 0
        b == a + SpaceRun(link_text, a)
    IN  IF b < Len(link_text) /\ link_text[b + 1] \in UpperChars /\ LowerRun(link_text, b + 1) >= 1
        THEN Slice(link_text, b, b + 1 + LowerRun(link_text, b + 1))
        ELSE << >>

\* re.search(r"\d{4}", link.text): the year, or << >> (None)
CiteYear(link_text) ==
    LET hits == {i \in 0..(Len(link_text) - 4) : DigitRun(link_text, i) >= 4}
    IN  IF hits = {} THEN << >> ELSE Slice(link_text, SetMin(hits), SetMin(hits) + 4)

\* _skip_close: past spaces and tabs, then past one closing paren or bracket
SkipClose(text, pos) ==
    LET stops == {j \in pos..(Len(text) - 1) : text[j + 1] \notin {" ", "\t"}}
        p == IF stops = {} THEN Max2(pos, Len(text)) ELSE SetMin(stops)
    IN  IF p < Len(text) /\ text[p + 1] \in {")", "]"} THEN p + 1 ELSE p

\* Strategy 1 of _find_cite_end_in_text, the while loop from pos on:
\* [found: surname_found, ret: the position returned or NoPos]
RECURSIVE SurnameScan(_, _, _, _, _)
SurnameScan(text, surname, year, pos, surname_found) ==
    IF pos >= Len(text) THEN [found |-> surname_found, ret |-> NoPos]
    ELSE
    LET name_idx == StrFind(text, surname, pos)
        end_of_name == name_idx + Len(surname)
        yr_idx == StrFind(Slice(text, name_idx, name_idx + 150), year, 0)
    IN  IF name_idx = NoPos THEN [found |-> surname_found, ret |-> NoPos]
        ELSE IF name_idx > 0 /\ IsAlpha(text[name_idx])
        THEN SurnameScan(text, surname, year, name_idx + 1, surname_found)
        ELSE IF end_of_name < Len(text) /\ IsAlpha(text[end_of_name + 1])
        THEN SurnameScan(text, surname, year, name_idx + 1, surname_found)
        ELSE IF yr_idx >= 0
        THEN [found |-> TRUE, ret |-> SkipClose(text, name_idx + yr_idx + Len(year))]
        ELSE SurnameScan(text, surname, year, name_idx + 1, TRUE)

\* [m.start() for m in re.finditer(re.escape(year), text)]: the leftmost
\* non-overlapping occurrences
RECURSIVE Occurrences(_, _, _)
Occurrences(text, pat, pos) ==
    LET i == StrFind(text, pat, pos)
    IN  IF i = NoPos THEN << >> ELSE <<i>> \o Occurrences(text, pat, i + Len(pat))

\* _find_cite_end_in_text(text, link): the offset after the citation, or NoPos
FindCiteEndInText(text, link_text) ==
    LET surname == CiteSurname(link_text)
        year == CiteYear(link_text)
        s1 == IF surname # << >> /\ year # << >>
              THEN SurnameScan(text, surname, year, 0, FALSE)
              ELSE [found |-> FALSE, ret |-> NoPos]
        positions == Occurrences(text, year, 0)
        idx == StrFind(text, link_text, 0)
    IN  IF s1.ret # NoPos THEN s1.ret
        ELSE IF year # << >> /\ ~s1.found /\ Len(positions) = 1
        THEN SkipClose(text, positions[1] + Len(year))
        ELSE IF /\ StartsWithAt(link_text, <<"[">>, 0) /\ EndsWith(link_text, "]")
                /\ idx >= 0
        THEN idx + Len(link_text)
        ELSE NoPos

\* The tag annotate_text inserts, one token of the output text
RefTag(ref_id) == " [dim]\\[ref=" \o ref_id \o "][/dim]"

\* result[:pos] + tag + result[pos:]
InsertAt(result, pos, tag) == Slice(result, 0, pos) \o <<tag>> \o Slice(result, pos, Len(result))

\* The citations of cite_spans that overlap [span_start, span_end) and are
\* not in seen_refs; the scan stops at the first one starting at or after
\* span_end.
RECURSIVE Overlapping(_, _, _, _, _)
Overlapping(cite_spans, k, span_start, span_end, seen_refs) ==
    IF k > Len(cite_spans) \/ cite_spans[k][1] >= span_end THEN << >>
    ELSE IF cite_spans[k][2] > span_start /\ cite_spans[k][3] \notin seen_refs
    THEN <<cite_spans[k]>> \o Overlapping(cite_spans, k + 1, span_start, span_end, seen_refs)
    ELSE Overlapping(cite_spans, k + 1, span_start, span_end, seen_refs)

\* ref_to_link[ref_id].text: the text of the first citation link of the ref
RefToLinkText(doc, registry, ref_id) ==
    LET hits == {k \in 1..Len(doc.links) :
                    /\ doc.links[k].kind = "citation"
                    /\ LabelToRef(registry, doc.links[k].text) = ref_id}
    IN  doc.links[SetMin(hits)].text

\* The (position, ref_id) pairs of the overlapping citations that can be
\* located in text, in the order of overlapping
Insertions(text, doc, registry, overlapping) ==
    LET located == [k \in 1..Len(overlapping) |->
                      <<FindCiteEndInText(text, RefToLinkText(doc, registry, overlapping[k][3])),
                        overlapping[k][3]>>]
    IN  SelectSeq(located, LAMBDA x : x[1] # NoPos)

PosGreater(a, b) == a[1] > b[1]

\* Insert the tags of the insertions, in the order given
RECURSIVE InsertAll(_, _, _)
InsertAll(result, insertions, k) ==
    IF k > Len(insertions) THEN result
    ELSE InsertAll(InsertAt(result, insertions[k][1], RefTag(insertions[k][2])),
                   insertions, k + 1)

\* annotate_text with spans, adding every overlapping candidate to
\* seen_refs whether or not it was located
AnnotateSpanSeenAll(text, doc, registry, span_start, span_end, seen_refs) ==
    LET overlapping == Overlapping(BuildCiteSpanIndex(doc, registry), 1,
                                   span_start, span_end, seen_refs)
        insertions == Insertions(text, doc, registry, overlapping)
    IN  [text |-> InsertAll(text, StableSort(insertions, PosGreater), 1),
         seen |-> seen_refs \cup {overlapping[k][3] : k \in 1..Len(overlapping)}]

\* annotate_text with span_start >= 0 and span_end >= 0:
\* [text: the annotated text, seen: seen_refs afterwards]
AnnotateSpan(text, doc, registry, span_start, span_end, seen_refs) ==
    LET overlapping == Overlapping(BuildCiteSpanIndex(doc, registry), 1,
                                   span_start, span_end, seen_refs)
        insertions == Insertions(text, doc, registry, overlapping)
    IN  [text |-> InsertAll(text, StableSort(insertions, PosGreater), 1),
         seen |-> seen_refs \cup {insertions[k][2] : k \in 1..Len(insertions)}]

\* annotate_text without a span: each citation label not yet seen is
\* searched in the text annotated so far, in registry order
RECURSIVE AnnotateMarkers(_, _, _, _)
AnnotateMarkers(annotated, markers, k, seen_refs) ==
    IF k > Len(markers) THEN [text |-> annotated, seen |-> seen_refs]
    ELSE LET idx == StrFind(annotated, markers[k].label, 0)
         IN  IF idx = NoPos THEN AnnotateMarkers(annotated, markers, k + 1, seen_refs)
             ELSE AnnotateMarkers(
                    InsertAt(annotated, idx + Len(markers[k].label), RefTag(markers[k].ref_id)),
                    markers, k + 1, seen_refs \cup {markers[k].ref_id})

\* label_to_ref_fb as the list of its (label, ref_id) items: a label keeps
\* the place of its first entry and the ref_id of its last one
FallbackMarkers(registry, seen_refs) ==
    LET live == SelectSeq(registry,
                    LAMBDA e : e.kind = "citation" /\ e.ref_id \notin seen_refs)
        firsts == SelectSeq([k \in 1..Len(live) |-> k],
                    LAMBDA k : \A j \in 1..(k - 1) : live[j].label # live[k].label)
    IN  [n \in 1..Len(firsts) |->
            [label |-> live[firsts[n]].label,
             ref_id |-> live[SetMax({j \in 1..Len(live) :
                            live[j].label = live[firsts[n]].label})].ref_id]]

\* annotate_text
AnnotateText(text, doc, registry, span_start, span_end, seen_refs) ==
    IF registry = << >> THEN [text |-> text, seen |-> seen_refs]
    ELSE IF span_start >= 0 /\ span_end >= 0
    THEN AnnotateSpan(text, doc, registry, span_start, span_end, seen_refs)
    ELSE AnnotateMarkers(text, FallbackMarkers(registry, seen_refs), 1, seen_refs)

----------------------------------------------------------------------------
(* storage.py, highlighter.py, layout.py, models.py: the cache files       *)
(* The text of a file is a sequence of JSON tokens: the brackets, braces,  *)
(* commas and colons json.dumps writes and one token per number or string. *)
(* The cache directory is a function from paths to files; the model has    *)
(* one paper directory and the index shared by all papers.                 *)

Absent == [exists |-> FALSE, text |-> << >>]

FileOf(text) == [exists |-> TRUE, text |-> text]

HlPath == "highlights.json"
HlTmp == "highlights.tmp"
IndexPath == "index.json"
IndexTmp == "index.tmp"
ParsedPath == "parsed.json"
LayoutPath == "layout.json"
LayoutTmp == "layout.tmp"
MetadataPath == "metadata.json"
PdfPath == "paper.pdf"
AnnotatedPath == "paper_annotated.pdf"
ModelPath == "doclayout_yolo_docstructbench_imgsz1024.pt"

Paths ==
    {HlPath, HlTmp, IndexPath, IndexTmp, ParsedPath, LayoutPath, LayoutTmp, MetadataPath,
     PdfPath, AnnotatedPath, ModelPath}

JsonPunct == {"[", "]", "{", "}", ",", ":"}

\* json.dumps of a list of objects, each given by the tokens of its values
DumpsList(objs) ==
    <<"[">>
    \o StrJoin([k \in 1..Len(objs) |-> <<"{">> \o objs[k] \o <<"}">>], <<",">>)
    \o <<"]">>

\* json.dumps of a dict given as a sequence of <<key, value>> pairs
DumpsDict(pairs) ==
    <<"{">>
    \o StrJoin([k \in 1..Len(pairs) |-> <<pairs[k][1], ":", pairs[k][2]>>], <<",">>)
    \o <<"}">>

\* The comma-separated items of a token sequence
RECURSIVE JsonItems(_)
JsonItems(tokens) ==
    LET commas == {i \in 1..Len(tokens) : tokens[i] = ","}
    IN  IF commas = {} THEN <<tokens>>
        ELSE <<SubSeq(tokens, 1, SetMin(commas) - 1)>>
             \o JsonItems(SubSeq(tokens, SetMin(commas) + 1, Len(tokens)))

IsJsonObject(item) ==
    /\ Len(item) >= 2
    /\ item[1] = "{"
    /\ item[Len(item)] = "}"
    /\ \A i \in 2..(Len(item) - 1) : item[i] \notin JsonPunct

IsJsonPair(item) ==
    /\ Len(item) = 3
    /\ item[2] = ":"
    /\ item[1] \notin JsonPunct
    /\ item[3] \notin JsonPunct

\* json.loads: [ok, value], ok FALSE standing for JSONDecodeError.  The
\* value of a list is the sequence of its objects' value tokens, the value
\* of a dict the sequence of its <<key, value>> pairs.
JsonLoads(text) ==
    LET n == Len(text)
        inner == SubSeq(text, 2, n - 1)
        items == IF inner = << >> THEN << >> ELSE JsonItems(inner)
    IN  IF /\ n >= 2
           /\ text[1] = "["
           /\ text[n] = "]"
           /\ \A k \in 1..Len(items) : IsJsonObject(items[k])
        THEN [ok |-> TRUE,
              value |-> [k \in 1..Len(items) |->
                            SubSeq(items[k], 2, Len(items[k]) - 1)]]
        ELSE IF /\ n >= 2
                /\ text[1] = "{"
                /\ text[n] = "}"
                /\ \A k \in 1..Len(items) : IsJsonPair(items[k])
        THEN [ok |-> TRUE,
              value |-> [k \in 1..Len(items) |-> <<items[k][1], items[k][3]>>]]
        ELSE [ok |-> FALSE, value |-> << >>]

\* _safe_json_load(path, fallback) or fallback
SafeJsonLoad(file, fallback) ==
    LET v == JsonLoads(file.text)
    IN  IF v.ok /\ v.value # << >> THEN v.value ELSE fallback

\* Path.write_text and Path.rename
WriteText(fs, path, text) == [fs EXCEPT ![path] = FileOf(text)]

Rename(fs, src, dst) == [fs EXCEPT ![dst] = fs[src], ![src] = Absent]

\* A highlight is [id, text]; asdict(hl) and back
HlToJson(h) == <<NumStr[h.id], h.text>>

HlFromJson(obj) ==
    [id |-> CHOOSE n \in 1..Len(NumStr) : NumStr[n] = obj[1], text |-> obj[2]]

\* storage.load_highlights
LoadHighlights(fs) ==
    IF fs[HlPath].exists
    THEN LET data == SafeJsonLoad(fs[HlPath], << >>)
         IN  [k \in 1..Len(data) |-> HlFromJson(data[k])]
    ELSE << >>

HighlightsText(highlights) ==
    DumpsList([k \in 1..Len(highlights) |-> HlToJson(highlights[k])])

\* storage.save_highlights
SaveHighlights(fs, highlights) ==
    Rename(WriteText(fs, HlTmp, HighlightsText(highlights)), HlTmp, HlPath)

\* Numbering by count instead of by maximum: repeats an id after a removal
NextIdByCount(highlights) == Len(highlights) + 1

\* add_highlight: next_id = max(ids, default=0) + 1
NextId(highlights) ==
    SetMax({highlights[k].id : k \in 1..Len(highlights)} \cup {0}) + 1

\* Inserting the new record in front instead of appending it
AddedInFront(highlights, text) ==
    <<[id |-> NextId(highlights), text |-> text]>> \o highlights

AddedHighlights(highlights, text) ==
    Append(highlights, [id |-> NextId(highlights), text |-> text])

\* remove_highlight: [h for h in highlights if h["id"] != highlight_id]
RemainingHighlights(highlights, highlight_id) ==
    SelectSeq(highlights, LAMBDA h : h.id # highlight_id)

\* list_papers, and the index update_index starts from
ListPapers(fs) ==
    IF fs[IndexPath].exists THEN SafeJsonLoad(fs[IndexPath], << >>) ELSE << >>

\* index[paper_id] = title on an insertion-ordered dict
DictSet(pairs, key, value) ==
    IF \E k \in 1..Len(pairs) : pairs[k][1] = key
    THEN [k \in 1..Len(pairs) |->
            IF pairs[k][1] = key THEN <<key, value>> ELSE pairs[k]]
    ELSE Append(pairs, <<key, value>>)

\* Writing the new index after the old text instead of replacing it
IndexTextAfterOld(fs, paper_id, title) ==
    fs[IndexPath].text \o DumpsDict(DictSet(ListPapers(fs), paper_id, title))

IndexText(fs, paper_id, title) == DumpsDict(DictSet(ListPapers(fs), paper_id, title))

\* storage.update_index
UpdateIndex(fs, paper_id, title) ==
    Rename(WriteText(fs, IndexTmp, IndexText(fs, paper_id, title)), IndexTmp, IndexPath)

\* storage.load_metadata: [none, value]
LoadMetadata(fs) ==
    LET v == JsonLoads(fs[MetadataPath].text)
    IN  IF fs[MetadataPath].exists /\ v.ok
        THEN [none |-> FALSE, value |-> v.value]
        ELSE [none |-> TRUE, value |-> << >>]

\* A Document is given by its title; Document.save writes this text
DocumentText(title) == DumpsDict(<< <<"title", title>> >>)

\* Document.load: [raised, title]; json.loads is not guarded
DocumentLoad(file) ==
    LET v == JsonLoads(file.text)
    IN  IF v.ok /\ Len(v.value) = 1
        THEN [raised |-> FALSE, title |-> v.value[1][2]]
        ELSE [raised |-> TRUE, title |-> ""]

\* A layout element is [kind, page, y0, label]: box.page and box.y0 are the
\* coordinates detect_all_pages sorts by, label is the text _assign_labels
\* gives it (<< >> before that).
Kinds == {"figure", "table", "equation"}

\* _assign_labels: prefix_map
LabelPrefix(kind) ==
    CASE kind = "figure" -> <<"F","i","g","u","r","e">>
      [] kind = "table" -> <<"T","a","b","l","e">>
      [] kind = "equation" -> <<"E","q",".">>

\* f"{prefix_map[elem.kind]} {counters[elem.kind]}"
LabelText(kind, n) == LabelPrefix(kind) \o <<" ", NumStr[n]>>

\* _assign_labels: a counter per kind, in list order
AssignLabels(elements) ==
    [i \in 1..Len(elements) |->
        [elements[i] EXCEPT !.label =
            LabelText(elements[i].kind,
                      Cardinality({j \in 1..i : elements[j].kind = elements[i].kind}))]]

\* The key (e.box.page, e.box.y0) of all_elements.sort
PageYLess(a, b) == a.page < b.page \/ (a.page = b.page /\ a.y0 < b.y0)

\* detect_all_pages without the ordering step
DetectedUnsorted(found) == AssignLabels(found)

\* detect_all_pages: the detections of all pages, sorted by page and then
\* top to bottom, and labelled
DetectAllPages(found) == AssignLabels(StableSort(found, PageYLess))

\* The JSON token of a number and of a string
NumTok(n) == IF n = 0 THEN "0" ELSE NumStr[n]

RECURSIVE StrTok(_)
StrTok(text) == IF text = << >> THEN "" ELSE text[1] \o StrTok(Tail(text))

\* The labels a layout file can hold, and the JSON token of each
Labels == {<< >>} \cup {LabelText(kind, n) : kind \in Kinds, n \in 1..Len(NumStr)}

LabelTok == [label \in Labels |-> StrTok(label)]

\* save_layout writes this text
LayoutText(elements) ==
    DumpsList([k \in 1..Len(elements) |->
                <<elements[k].kind, NumTok(elements[k].page), NumTok(elements[k].y0),
                  LabelTok[elements[k].label]>>])

\* LayoutElement(kind=d["kind"], box=Box(**d["box"]), ...)
ElementFromJson(obj) ==
    [kind |-> obj[1],
     page |-> CHOOSE n \in 0..Len(NumStr) : NumTok(n) = obj[2],
     y0 |-> CHOOSE n \in 0..Len(NumStr) : NumTok(n) = obj[3],
     label |-> CHOOSE label \in Labels : LabelTok[label] = obj[4]]

\* load_layout: [raised, elements]; json.loads is not guarded
LoadLayout(fs) ==
    LET v == JsonLoads(fs[LayoutPath].text)
    IN  IF ~fs[LayoutPath].exists THEN [raised |-> FALSE, elements |-> << >>]
        ELSE IF v.ok
        THEN [raised |-> FALSE,
              elements |-> [k \in 1..Len(v.value) |-> ElementFromJson(v.value[k])]]
        ELSE [raised |-> TRUE, elements |-> << >>]

\* save_layout writing the elements into the cached Document
SaveLayoutIntoDocument(fs, elements) ==
    Rename(WriteText(fs, LayoutTmp, LayoutText(elements)), LayoutTmp, ParsedPath)

\* save_layout
SaveLayout(fs, elements) ==
    Rename(WriteText(fs, LayoutTmp, LayoutText(elements)), LayoutTmp, LayoutPath)

----------------------------------------------------------------------------
(* Bounded inputs of the parser                                            *)

MaxLines == 3
MaxTocPage == 3

TxtTitle == <<"T","i","t","l","e">>
TxtOne == <<"1">>
TxtIntro == <<"I","n","t","r","o">>
TxtMethod == <<"M","e","t","h","o","d">>
TxtBody == <<"A","a"," ","b","b","."," ","C","c"," ","d","d",".">>
TxtResults == <<"R","e","s","u","l","t","s">>

Ln(text, font_size, is_bold) == [text |-> text, font_size |-> font_size, is_bold |-> is_bold]

\* Line kinds: a title, larger headings (one of them half a point larger
\* than the others), body text and a bold body-size heading
FontLinePool ==
    { Ln(TxtTitle, 200, FALSE), Ln(TxtOne, 120, TRUE), Ln(TxtIntro, 120, TRUE),
      Ln(TxtMethod, 125, TRUE), Ln(TxtBody, 100, FALSE), Ln(TxtResults, 100, TRUE) }

SeqsUpTo(S, n) == UNION {[1..k -> S] : k \in 1..n}

\* The first brk lines are on page 0, the others on page 1
Paged(ls, brk) ==
    [k \in 1..Len(ls) |->
        [text |-> ls[k].text, font_size |-> ls[k].font_size, is_bold |-> ls[k].is_bold,
         page |-> IF k <= brk THEN 0 ELSE 1]]

Layouts(pool) == {Paged(ls, brk) : ls \in SeqsUpTo(pool, MaxLines), brk \in 0..MaxLines}

MkPdf(lines, toc, annots) == [lines |-> lines, toc |-> toc, annots |-> annots]

FontInputs == {MkPdf(ls, << >>, << >>) : ls \in Layouts(FontLinePool)}

\* Outline entries [level, title, page_num]; page_num is 1-based and page
\* MaxTocPage has no line.  An outline has at least 3 entries.
TocEntries ==
    {[level |-> 1, title |-> t, page_num |-> p] :
        t \in {TxtIntro, TxtMethod, << >>}, p \in 1..MaxTocPage}

TocPool == {<<a, b, c>> : a \in TocEntries, b \in TocEntries, c \in TocEntries}

OutlineLines == <<Ln(TxtIntro, 120, TRUE), Ln(TxtBody, 100, FALSE), Ln(TxtMethod, 120, TRUE)>>

OutlineInputs ==
    {MkPdf(Paged(OutlineLines, brk), toc, << >>) : brk \in 1..2, toc \in TocPool}

----------------------------------------------------------------------------
(* The parser as a state machine: _extract_document step by step           *)

VARIABLES
    input,        \* the PDF being parsed: [lines, toc, annots]
    p_stage,      \* the step _extract_document has completed
    p_lines,      \* lines with char_start/char_end
    p_raw_text,   \* raw_text
    p_headings,   \* the heading list handed to the next step
    p_sections,   \* sections (with sentences after step 7)
    p_links       \* links

parseVars == <<input, p_stage, p_lines, p_raw_text, p_headings, p_sections, p_links>>

VARIABLES
    r_doc,        \* the Document being rendered
    r_registry,   \* build_ref_registry(doc)
    r_pc,         \* "start", "section" (inside render_section), "done"
    r_sec,        \* the index of the section being rendered
    r_pos,        \* how many sentences (or content lines) of it are printed
    r_seen,       \* seen_refs of the running render_section call
    r_out         \* the texts printed so far, in order

renderVars == <<r_doc, r_registry, r_pc, r_sec, r_pos, r_seen, r_out>>

VARIABLES
    fs,           \* the cache directory: path -> [exists, text]
    last,         \* the latest completed call: [op, arg, loaded, ret, wrote]
    pc,           \* per CLI invocation: the step it is at
    job,          \* per CLI invocation: the call it runs and its argument
    loaded,       \* per CLI invocation: the value it read or is about to write
    solo,         \* no two invocations have overlapped so far
    n_added,      \* how many add_highlight calls have returned
    n_calls       \* how many invocations have started to change the cache

storeVars == <<fs, last, pc, job, loaded, solo, n_added, n_calls>>

VARIABLES
    model_instance,  \* layout._model_instance of the running process
    n_built          \* how many times the running process has constructed YOLOv10

procVars == <<model_instance, n_built>>

VARIABLES
    last_header,     \* the content of ~/.papers/.last_header: [paper_id, timestamp]
    now              \* time.time(), in seconds

headerVars == <<last_header, now>>

notParse == <<renderVars, storeVars, procVars, headerVars>>

notRender == <<parseVars, storeVars, procVars, headerVars>>

notStore == <<parseVars, renderVars, procVars, headerVars>>

notHeader == <<parseVars, renderVars, procVars>>

vars == <<parseVars, renderVars, storeVars, procVars, headerVars>>

ParseInit(inputs) ==
    /\ input \in inputs
    /\ p_stage = "start"
    /\ p_lines = << >>
    /\ p_raw_text = << >>
    /\ p_headings = << >>
    /\ p_sections = << >>
    /\ p_links = << >>

\* Steps 1-3: _extract_lines (given), _detect_body_font_size, _build_raw_text
BuildText ==
    /\ p_stage = "start"
    /\ p_lines' = BuildRawText(input.lines).lines
    /\ p_raw_text' = BuildRawText(input.lines).raw_text
    /\ p_stage' = "text"
    /\ UNCHANGED <<input, p_headings, p_sections, p_links, notParse>>

\* Step 4, the outline has at least 3 entries: _resolve_outline_offsets
HeadingsFromOutline ==
    /\ p_stage = "text"
    /\ ExtractHeadingsFromOutline(input.toc) # << >>
    /\ p_headings' = ResolveOutlineOffsets(ExtractHeadingsFromOutline(input.toc), p_lines)
    /\ p_stage' = "headings"
    /\ UNCHANGED <<input, p_lines, p_raw_text, p_sections, p_links, notParse>>

\* Step 4, no usable outline: _extract_headings_from_fonts
HeadingsFromFonts ==
    /\ p_stage = "text"
    /\ ExtractHeadingsFromOutline(input.toc) = << >>
    /\ p_headings' = ExtractHeadingsFromFonts(p_lines, DetectBodyFontSize(input.lines))
    /\ p_stage' = "headings"
    /\ UNCHANGED <<input, p_lines, p_raw_text, p_sections, p_links, notParse>>

\* Step 5: _merge_heading_fragments; its IndexError ends the parse
MergeFragments ==
    /\ p_stage = "headings"
    /\ LET m == MergeHeadingFragments(p_headings)
       IN  IF m.raised
           THEN p_stage' = "raised" /\ UNCHANGED p_headings
           ELSE p_stage' = "merged" /\ p_headings' = m.merged
    /\ UNCHANGED <<input, p_lines, p_raw_text, p_sections, p_links, notParse>>

\* Step 6: _segment_sections
Segment ==
    /\ p_stage = "merged"
    /\ p_sections' = SegmentSections(p_raw_text, p_lines, p_headings)
    /\ p_stage' = "segmented"
    /\ UNCHANGED <<input, p_lines, p_raw_text, p_headings, p_links, notParse>>

\* Step 7: _split_sentences
Split ==
    /\ p_stage = "segmented"
    /\ p_sections' = SplitSentences(p_sections)
    /\ p_stage' = "split"
    /\ UNCHANGED <<input, p_lines, p_raw_text, p_headings, p_links, notParse>>

\* Step 10: _extract_links then _detect_citations; the Document is complete
Links ==
    /\ p_stage = "split"
    /\ p_links' = ExtractLinks(p_lines, input.annots) \o DetectCitations(p_raw_text)
    /\ p_stage' = "done"
    /\ UNCHANGED <<input, p_lines, p_raw_text, p_headings, p_sections, notParse>>

ParseNext ==
    \/ BuildText
    \/ HeadingsFromOutline
    \/ HeadingsFromFonts
    \/ MergeFragments
    \/ Segment
    \/ Split
    \/ Links

----------------------------------------------------------------------------
(* renderer.py: render_full as a state machine                             *)

RenderInit(docs) ==
    /\ r_doc \in docs
    /\ r_registry = << >>
    /\ r_pc = "start"
    /\ r_sec = 0
    /\ r_pos = 0
    /\ r_seen = {}
    /\ r_out = << >>

\* [l.strip() for l in section.content.split("\n") if l.strip()]
RECURSIVE ContentLinesFrom(_, _)
ContentLinesFrom(content, i) ==
    \* i: 1-based index of the first character of the next line
    IF i > Len(content) + 1 THEN << >>
    ELSE LET nls == {j \in i..Len(content) : content[j] = "\n"}
             e == IF nls = {} THEN Len(content) + 1 ELSE SetMin(nls)
             l == StrStrip(SubSeq(content, i, e - 1))
         IN  (IF l = << >> THEN << >> ELSE <<l>>) \o ContentLinesFrom(content, e + 1)

ContentLines(content) == ContentLinesFrom(content, 1)

\* What render_section prints for a section: its sentences, or the lines of
\* its content when it has no sentences
UsesContent(section) == section.sentences = << >> /\ section.content # << >>

Printable(section) ==
    IF UsesContent(section) THEN Len(ContentLines(section.content))
    ELSE Len(section.sentences)

\* render_full: build the registry and enter the first render_section call
RenderStart ==
    /\ r_pc = "start"
    /\ r_registry' = BuildRefRegistry(r_doc)
    /\ IF r_doc.sections = << >>
       THEN r_pc' = "done" /\ UNCHANGED r_sec
       ELSE r_pc' = "section" /\ r_sec' = 1
    /\ r_pos' = 0
    /\ r_seen' = {}
    /\ UNCHANGED <<r_doc, r_out, notRender>>

\* render_section, one iteration of "for sentence in sentences"
RenderSentence ==
    /\ r_pc = "section"
    /\ ~UsesContent(r_doc.sections[r_sec])
    /\ r_pos < Len(r_doc.sections[r_sec].sentences)
    /\ LET sentence == r_doc.sections[r_sec].sentences[r_pos + 1]
           a == AnnotateText(sentence.text, r_doc, r_registry,
                             sentence.span.start, sentence.span.end, r_seen)
       IN  /\ r_out' = Append(r_out, a.text)
           /\ r_seen' = a.seen
    /\ r_pos' = r_pos + 1
    /\ UNCHANGED <<r_doc, r_registry, r_pc, r_sec, notRender>>

\* render_section, one iteration of "for line in lines" (no sentences parsed)
RenderContentLine ==
    /\ r_pc = "section"
    /\ UsesContent(r_doc.sections[r_sec])
    /\ r_pos < Len(ContentLines(r_doc.sections[r_sec].content))
    /\ LET line == ContentLines(r_doc.sections[r_sec].content)[r_pos + 1]
           a == AnnotateText(line, r_doc, r_registry, NoPos, NoPos, r_seen)
       IN  /\ r_out' = Append(r_out, a.text)
           /\ r_seen' = a.seen
    /\ r_pos' = r_pos + 1
    /\ UNCHANGED <<r_doc, r_registry, r_pc, r_sec, notRender>>

\* render_section returns; render_full calls it for the next section, with a
\* fresh seen_refs, or is done
NextSection ==
    /\ r_pc = "section"
    /\ r_pos = Printable(r_doc.sections[r_sec])
    /\ IF r_sec = Len(r_doc.sections)
       THEN r_pc' = "done" /\ UNCHANGED r_sec
       ELSE r_pc' = "section" /\ r_sec' = r_sec + 1
    /\ r_pos' = 0
    /\ r_seen' = {}
    /\ UNCHANGED <<r_doc, r_registry, r_out, notRender>>

RenderNext ==
    \/ RenderStart
    \/ RenderSentence
    \/ RenderContentLine
    \/ NextSection

----------------------------------------------------------------------------
(* Bounded inputs of the renderer: Documents the parser produces from a    *)
(* title page followed by lines with citation link annotations, and the    *)
(* same Documents before sentence splitting.                               *)

MaxRenderItems == 2

TxtHuCite == <<"H","u"," ","(","2","0","2","2",")"," ","o","k",".">>
TxtNumCite == <<"S","e","e"," ","[","1","]"," ","o","k",".">>
TxtTwoCite == <<"H","u"," ","2","0","2","2",","," ","L","i"," ","2","0","2","0",","," ","H","u"," ","2","0","2","2",".">>
TxtByHu == <<"b","y"," ","H","u">>
TxtYearOk == <<"(","2","0","2","2",")"," ","o","k",".">>
DestHu == <<"c","i","t","e",".","h","u">>
DestLi == <<"c","i","t","e",".","l","i">>

\* A named-destination rectangle on line `line` of its item
Frag(dest, text, line) == [dest |-> dest, text |-> text, line |-> line]

\* An item is one or two consecutive body lines and the named-destination
\* rectangles on them in reading order: a citation split over two
\* rectangles, a numeric citation without annotation, a paper cited twice on
\* one line with another citation between, and a citation split over two
\* lines.
RenderItems ==
    { [lines |-> <<Ln(TxtHuCite, 100, FALSE)>>,
       frags |-> <<Frag(DestHu, <<"H","u">>, 1),
                   Frag(DestHu, <<"(","2","0","2","2",")">>, 1)>>],
      [lines |-> <<Ln(TxtNumCite, 100, FALSE)>>, frags |-> << >>],
      [lines |-> <<Ln(TxtTwoCite, 100, FALSE)>>,
       frags |-> <<Frag(DestHu, <<"H","u"," ","2","0","2","2">>, 1),
                   Frag(DestLi, <<"L","i"," ","2","0","2","0">>, 1),
                   Frag(DestHu, <<"H","u"," ","2","0","2","2">>, 1)>>],
      [lines |-> <<Ln(TxtByHu, 100, FALSE), Ln(TxtYearOk, 100, FALSE)>>,
       frags |-> <<Frag(DestHu, <<"H","u">>, 1),
                   Frag(DestHu, <<"(","2","0","2","2",")">>, 2)>>] }

\* The item with a section heading line before it
WithHeading(item) ==
    [lines |-> <<Ln(TxtIntro, 120, TRUE)>> \o item.lines,
     frags |-> [n \in 1..Len(item.frags) |->
                  Frag(item.frags[n].dest, item.frags[n].text, item.frags[n].line + 1)]]

\* Documents of up to MaxRenderItems items, each opening a new section or
\* continuing the current one; the first item opens the first section, or
\* the document is one item without any heading.
HeadedItems == RenderItems \cup {WithHeading(item) : item \in RenderItems}

RenderItemSeqs ==
    {items \in SeqsUpTo(HeadedItems, MaxRenderItems) :
        items # << >> /\ items[1] \notin RenderItems}
    \cup {<<item>> : item \in RenderItems}

RECURSIVE ItemLines(_)
ItemLines(items) ==
    IF items = << >> THEN << >> ELSE items[1].lines \o ItemLines(Tail(items))

\* The annotations of items, the first line of items being line `base` + 1;
\* all of them are on page 1 and point to page 2
RECURSIVE ItemAnnots(_, _)
ItemAnnots(items, base) ==
    IF items = << >> THEN << >>
    ELSE [n \in 1..Len(items[1].frags) |->
            [kind |-> "named", page |-> 1, line |-> base + items[1].frags[n].line,
             text |-> items[1].frags[n].text, uri |-> << >>,
             dest |-> items[1].frags[n].dest, target_page |-> 2]]
         \o ItemAnnots(Tail(items), base + Len(items[1].lines))

\* A title on page 0, then the lines of the items on page 1
RenderPdf(items) ==
    MkPdf(Paged(<<Ln(TxtTitle, 200, FALSE)>> \o ItemLines(items), 1),
          << >>, ItemAnnots(items, 1))

RenderInputs == {RenderPdf(items) : items \in RenderItemSeqs}

\* A Document whose sections carry content but no sentences
Unsplit(doc) ==
    [doc EXCEPT !.sections = [i \in 1..Len(doc.sections) |->
                                [doc.sections[i] EXCEPT !.sentences = << >>]]]

ParsedDocs == {ExtractDocument(pdf).document : pdf \in RenderInputs}

RenderDocs == ParsedDocs \cup {Unsplit(d) : d \in ParsedDocs}

----------------------------------------------------------------------------
(* The cache directory under sequential calls: every action is one whole   *)
(* call of a storage.py / highlighter.py function by the only running CLI  *)
(* invocation.                                                             *)

MaxId == 3

MaxCalls == 3

Procs == {1, 2}

HlTexts == {"a", "b"}

PaperIds == {"p1", "p2"}

Titles == {"T", "U"}

\* A file that is not valid JSON
Garbage == <<"#">>

NoCall == [op |-> "none", arg |-> "", loaded |-> << >>, ret |-> "", wrote |-> FALSE]

\* ~/.papers/.last_header does not exist
NoHeader == [paper_id |-> "", timestamp |-> 0 - 1]

NoJob == [op |-> "none", arg |-> "", base |-> << >>, id |-> 0, status |-> "none"]

\* _model_instance = None
NoInstance == 0

\* The state of the invocations when none is running
ProcsIdle ==
    /\ pc = [p \in Procs |-> "idle"]
    /\ job = [p \in Procs |-> NoJob]
    /\ loaded = [p \in Procs |-> << >>]
    /\ solo = TRUE
    /\ n_added = 0
    /\ n_calls = 0
    /\ model_instance = NoInstance
    /\ n_built = 0
    /\ last_header = NoHeader
    /\ now = 0

StoreInit(files) ==
    /\ fs \in files
    /\ last = NoCall
    /\ ProcsIdle

seqCalls == <<pc, job, loaded, solo, n_added, n_calls, notStore>>

\* add_highlight(paper_id, text, ...)
CallAddHighlight ==
    \E text \in HlTexts :
        LET highlights == LoadHighlights(fs)
            added == AddedHighlights(highlights, text)
        IN  /\ NextId(highlights) <= MaxId
            /\ fs' = SaveHighlights(fs, added)
            /\ last' = [op |-> "add_highlight", arg |-> text, loaded |-> highlights,
                        ret |-> added[Len(added)], wrote |-> TRUE]
            /\ UNCHANGED seqCalls

\* remove_highlight saving the filtered list whether or not it found the id
CallRemoveAlwaysSaving ==
    \E highlight_id \in 1..MaxId :
        LET highlights == LoadHighlights(fs)
            remaining == RemainingHighlights(highlights, highlight_id)
        IN  /\ fs' = SaveHighlights(fs, remaining)
            /\ last' = [op |-> "remove_highlight", arg |-> highlight_id,
                        loaded |-> highlights,
                        ret |-> Len(remaining) # Len(highlights), wrote |-> TRUE]
            /\ UNCHANGED seqCalls

\* remove_highlight(paper_id, highlight_id)
CallRemoveHighlight ==
    \E highlight_id \in 1..MaxId :
        LET highlights == LoadHighlights(fs)
            remaining == RemainingHighlights(highlights, highlight_id)
            found == Len(remaining) # Len(highlights)
        IN  /\ fs' = IF found THEN SaveHighlights(fs, remaining) ELSE fs
            /\ last' = [op |-> "remove_highlight", arg |-> highlight_id,
                        loaded |-> highlights, ret |-> found, wrote |-> found]
            /\ UNCHANGED seqCalls

\* load_highlights(paper_id)
CallLoadHighlights ==
    /\ last' = [op |-> "load_highlights", arg |-> "", loaded |-> << >>,
                ret |-> LoadHighlights(fs), wrote |-> FALSE]
    /\ UNCHANGED <<fs, seqCalls>>

\* update_index(paper_id, title)
CallUpdateIndexOf(paper_ids, titles) ==
    \E paper_id \in paper_ids, title \in titles :
        /\ fs' = UpdateIndex(fs, paper_id, title)
        /\ last' = [op |-> "update_index", arg |-> <<paper_id, title>>,
                    loaded |-> << >>, ret |-> "", wrote |-> TRUE]
        /\ UNCHANGED seqCalls

\* list_papers()
CallListPapers ==
    /\ last' = [op |-> "list_papers", arg |-> "", loaded |-> << >>,
                ret |-> ListPapers(fs), wrote |-> FALSE]
    /\ UNCHANGED <<fs, seqCalls>>

\* load_metadata(paper_id)
CallLoadMetadata ==
    /\ last' = [op |-> "load_metadata", arg |-> "", loaded |-> << >>,
                ret |-> LoadMetadata(fs), wrote |-> FALSE]
    /\ UNCHANGED <<fs, seqCalls>>

CallUpdateIndex == CallUpdateIndexOf(PaperIds, Titles)

StoreNext ==
    \/ CallAddHighlight
    \/ CallRemoveHighlight
    \/ CallLoadHighlights
    \/ CallUpdateIndex
    \/ CallListPapers
    \/ CallLoadMetadata

\* The cache directory a sequence of calls can start from: each of
\* highlights.json, index.json and metadata.json is missing, holds text that
\* is not JSON, or holds what an earlier run wrote.
NoFiles == [path \in Paths |-> Absent]

StoreFiles ==
    {[NoFiles EXCEPT ![HlPath] = h, ![IndexPath] = i, ![MetadataPath] = m] :
        h \in {Absent, FileOf(Garbage), FileOf(HighlightsText(<< >>))},
        i \in {Absent, FileOf(Garbage)},
        m \in {Absent, FileOf(Garbage), FileOf(DumpsDict(<< <<"title", "T">> >>))}}

----------------------------------------------------------------------------
(* CLI invocations step by step: each file-system access of parse_paper,   *)
(* detect_layout and add_highlight is one step, and an invocation can be   *)
(* killed between any two of its steps.  Another invocation that reads a   *)
(* cache file finds what fs holds in the state it reads in.                *)

DocTitles == {"", "T"}

LayoutPool ==
    {<< >>, DetectAllPages(<<[kind |-> "figure", page |-> 0, y0 |-> 1, label |-> << >>]>>)}

CacheFiles == {ParsedPath, LayoutPath, HlPath, IndexPath}

\* The lengths write_text can have written when it is observed or killed
PrefixLens(text) == {0, Len(text) \div 2}

Returned(p, ret, wrote) ==
    [op |-> job[p].op, arg |-> job[p].arg, loaded |-> << >>, ret |-> ret, wrote |-> wrote]

\* parse_paper up to its first write: the cached Document when parsed.json
\* exists, else _extract_document
ParsePaperOpen(p) ==
    /\ pc[p] = "idle"
    /\ IF fs[ParsedPath].exists
       THEN LET doc == DocumentLoad(fs[ParsedPath])
            IN  /\ last' = [op |-> "parse_paper", arg |-> "", loaded |-> doc.title,
                            ret |-> IF doc.raised THEN "raised" ELSE "returned",
                            wrote |-> FALSE]
                /\ UNCHANGED <<pc, job, n_calls>>
       ELSE \E title \in DocTitles :
                /\ n_calls < MaxCalls
                /\ n_calls' = n_calls + 1
                /\ pc' = [pc EXCEPT ![p] = "save"]
                /\ job' = [job EXCEPT ![p] =
                             [NoJob EXCEPT !.op = "parse_paper", !.arg = title,
                                           !.status = "running"]]
                /\ UNCHANGED last
    /\ UNCHANGED <<fs, loaded, solo, n_added, notStore>>

\* Document.save: path.write_text has opened parsed.json and written a part
DocSaveBegin(p) ==
    /\ pc[p] = "save"
    /\ \E k \in PrefixLens(DocumentText(job[p].arg)) :
          fs' = WriteText(fs, ParsedPath, SubSeq(DocumentText(job[p].arg), 1, k))
    /\ pc' = [pc EXCEPT ![p] = "saving"]
    /\ UNCHANGED <<last, job, loaded, solo, n_added, n_calls, notStore>>

\* Document.save: write_text has written the rest; parse_paper returns here
\* when the document has no title
DocSaveEnd(p) ==
    /\ pc[p] = "saving"
    /\ fs' = WriteText(fs, ParsedPath, DocumentText(job[p].arg))
    /\ IF job[p].arg # ""
       THEN /\ pc' = [pc EXCEPT ![p] = "index"]
            /\ UNCHANGED <<last, job>>
       ELSE /\ pc' = [pc EXCEPT ![p] = "idle"]
            /\ last' = Returned(p, "returned", TRUE)
            /\ job' = [job EXCEPT ![p].status = "returned"]
    /\ UNCHANGED <<loaded, solo, n_added, n_calls, notStore>>

\* update_index up to its write: the index with the new title
IndexLoad(p) ==
    /\ pc[p] = "index"
    /\ loaded' = [loaded EXCEPT ![p] =
                    [tmp |-> IndexTmp, path |-> IndexPath,
                     text |-> IndexText(fs, "p1", job[p].arg)]]
    /\ pc' = [pc EXCEPT ![p] = "write"]
    /\ UNCHANGED <<fs, last, job, solo, n_added, n_calls, notStore>>

\* detect_layout up to its write: the cached elements when layout.json
\* exists and force is off, else detect_all_pages
DetectLayoutOpen(p) ==
    /\ pc[p] = "idle"
    /\ \E force \in BOOLEAN :
          IF ~force /\ fs[LayoutPath].exists
          THEN LET cached == LoadLayout(fs)
               IN  /\ last' = [op |-> "detect_layout", arg |-> force,
                               loaded |-> cached.elements,
                               ret |-> IF cached.raised THEN "raised" ELSE "returned",
                               wrote |-> FALSE]
                   /\ UNCHANGED <<pc, job, loaded, n_calls>>
          ELSE \E elements \in LayoutPool :
                   /\ n_calls < MaxCalls
                   /\ n_calls' = n_calls + 1
                   /\ pc' = [pc EXCEPT ![p] = "write"]
                   /\ job' = [job EXCEPT ![p] =
                                [NoJob EXCEPT !.op = "detect_layout", !.arg = force,
                                              !.status = "running"]]
                   /\ loaded' = [loaded EXCEPT ![p] =
                                   [tmp |-> LayoutTmp, path |-> LayoutPath,
                                    text |-> LayoutText(elements)]]
                   /\ UNCHANGED last
    /\ UNCHANGED <<fs, solo, n_added, notStore>>

\* add_highlight up to its write: load_highlights, next_id, append
AddHighlightLoad(p) ==
    /\ pc[p] = "idle"
    /\ n_calls < MaxCalls
    /\ n_calls' = n_calls + 1
    /\ \E text \in HlTexts :
          LET highlights == LoadHighlights(fs)
          IN  /\ NextId(highlights) <= MaxId
              /\ job' = [job EXCEPT ![p] =
                           [op |-> "add_highlight", arg |-> text, base |-> highlights,
                            id |-> NextId(highlights), status |-> "running"]]
              /\ loaded' = [loaded EXCEPT ![p] =
                              [tmp |-> HlTmp, path |-> HlPath,
                               text |-> HighlightsText(AddedHighlights(highlights, text))]]
    /\ pc' = [pc EXCEPT ![p] = "write"]
    /\ solo' = (solo /\ \A q \in Procs \ {p} : pc[q] = "idle")
    /\ UNCHANGED <<fs, last, n_added, notStore>>

\* tmp.write_text has opened the temporary file and written a part
TmpWriteBegin(p) ==
    /\ pc[p] = "write"
    /\ \E k \in PrefixLens(loaded[p].text) :
          fs' = WriteText(fs, loaded[p].tmp, SubSeq(loaded[p].text, 1, k))
    /\ pc' = [pc EXCEPT ![p] = "writing"]
    /\ UNCHANGED <<last, job, loaded, solo, n_added, n_calls, notStore>>

\* tmp.write_text has written the rest
TmpWriteEnd(p) ==
    /\ pc[p] = "writing"
    /\ fs' = WriteText(fs, loaded[p].tmp, loaded[p].text)
    /\ pc' = [pc EXCEPT ![p] = "rename"]
    /\ UNCHANGED <<last, job, loaded, solo, n_added, n_calls, notStore>>

\* tmp.write_text as one step
TmpWrite(p) ==
    /\ pc[p] = "write"
    /\ fs' = WriteText(fs, loaded[p].tmp, loaded[p].text)
    /\ pc' = [pc EXCEPT ![p] = "rename"]
    /\ UNCHANGED <<last, job, loaded, solo, n_added, n_calls, notStore>>

\* A rename that reads the target again and appends its own record to it
TmpRenameMerging(p) ==
    /\ pc[p] = "rename"
    /\ job[p].op = "add_highlight"
    /\ fs' = SaveHighlights(fs, AddedHighlights(LoadHighlights(fs), job[p].arg))
    /\ last' = Returned(p, "returned", TRUE)
    /\ job' = [job EXCEPT ![p].status = "returned"]
    /\ n_added' = n_added + 1
    /\ pc' = [pc EXCEPT ![p] = "idle"]
    /\ loaded' = [loaded EXCEPT ![p] = << >>]
    /\ UNCHANGED <<solo, n_calls, notStore>>

\* tmp.rename(path), after which the call returns; FileNotFoundError when
\* the temporary file is gone
TmpRename(p) ==
    /\ pc[p] = "rename"
    /\ IF fs[loaded[p].tmp].exists
       THEN /\ fs' = Rename(fs, loaded[p].tmp, loaded[p].path)
            /\ last' = Returned(p, "returned", TRUE)
            /\ job' = [job EXCEPT ![p].status = "returned"]
            /\ n_added' = IF job[p].op = "add_highlight" THEN n_added + 1 ELSE n_added
       ELSE /\ last' = Returned(p, "raised", TRUE)
            /\ job' = [job EXCEPT ![p].status = "raised"]
            /\ UNCHANGED <<fs, n_added>>
    /\ pc' = [pc EXCEPT ![p] = "idle"]
    /\ loaded' = [loaded EXCEPT ![p] = << >>]
    /\ UNCHANGED <<solo, n_calls, notStore>>

\* The invocation is killed; the files stay as they are
Crash(p) ==
    /\ pc[p] # "idle"
    /\ pc' = [pc EXCEPT ![p] = "idle"]
    /\ job' = [job EXCEPT ![p] = NoJob]
    /\ loaded' = [loaded EXCEPT ![p] = << >>]
    /\ UNCHANGED <<fs, last, solo, n_added, n_calls, notStore>>

\* The single writer of the paper
Writer == SetMin(Procs)

CacheNext ==
    \/ ParsePaperOpen(Writer)
    \/ DocSaveBegin(Writer)
    \/ DocSaveEnd(Writer)
    \/ IndexLoad(Writer)
    \/ DetectLayoutOpen(Writer)
    \/ AddHighlightLoad(Writer)
    \/ TmpWriteBegin(Writer)
    \/ TmpWriteEnd(Writer)
    \/ TmpRename(Writer)
    \/ Crash(Writer)

\* parsed.json and layout.json are missing or hold text that is not JSON
CacheFilesInit ==
    {[NoFiles EXCEPT ![ParsedPath] = d, ![LayoutPath] = l] :
        d \in {Absent, FileOf(Garbage)}, l \in {Absent, FileOf(Garbage)}}

\* Two invocations of add_highlight on the same paper
ConcNext ==
    \E p \in Procs :
        \/ AddHighlightLoad(p)
        \/ TmpWrite(p)
        \/ TmpRename(p)

----------------------------------------------------------------------------
(* Whole calls on one paper by one process at a time: fetch_paper,         *)
(* parse_paper and update_index, each running to its end.  A PDF file is   *)
(* the token "%PDF", the title _extract_document finds in it, and one      *)
(* token per page.                                                         *)

PaperId == "p1"

MaxPages == 2

PdfText(title, num_pages) == <<"%PDF", title>> \o [k \in 1..num_pages |-> "page"]

\* fitz.open(pdf_path) succeeds
IsPdf(file) == file.exists /\ Len(file.text) >= 2 /\ file.text[1] = "%PDF"

\* len(doc) of an opened PDF
NumPages(file) == Cardinality({k \in 1..Len(file.text) : file.text[k] = "page"})

\* document.metadata.title of an opened PDF
PdfTitle(file) == file.text[2]

\* What a download can leave in paper.pdf: nothing (the request failed and
\* the temporary file was unlinked), a PDF, or a body that is not a PDF
Downloads == {Absent, FileOf(Garbage), FileOf(PdfText("", 1)), FileOf(PdfText("T", MaxPages))}

\* fetch_paper for an arXiv id: [fs, raised]
FetchPaper(files, download) ==
    IF files[PdfPath].exists THEN [fs |-> files, raised |-> FALSE]
    ELSE IF ~download.exists THEN [fs |-> files, raised |-> TRUE]
    ELSE [fs |-> WriteText([files EXCEPT ![PdfPath] = download], MetadataPath,
                           DumpsDict(<< <<"arxiv_id", PaperId>> >>)),
          raised |-> FALSE]

\* parse_paper that caches an empty Document before it opens the PDF
ParsePaperSavingFirst(files) ==
    IF files[ParsedPath].exists
    THEN LET doc == DocumentLoad(files[ParsedPath])
         IN  [fs |-> files, source |-> "cache", raised |-> doc.raised, title |-> doc.title]
    ELSE LET saved == WriteText(files, ParsedPath, DocumentText(""))
         IN  IF ~IsPdf(files[PdfPath])
             THEN [fs |-> saved, source |-> "pdf", raised |-> TRUE, title |-> ""]
             ELSE [fs |-> saved, source |-> "pdf", raised |-> FALSE,
                   title |-> PdfTitle(files[PdfPath])]

\* parse_paper(arxiv_id, pdf_path): [fs, source, raised, title], source
\* telling whether the cache was read or the PDF was opened
ParsePaper(files) ==
    IF files[ParsedPath].exists
    THEN LET doc == DocumentLoad(files[ParsedPath])
         IN  [fs |-> files, source |-> "cache", raised |-> doc.raised, title |-> doc.title]
    ELSE IF ~IsPdf(files[PdfPath])
    THEN [fs |-> files, source |-> "pdf", raised |-> TRUE, title |-> ""]
    ELSE LET title == PdfTitle(files[PdfPath])
             saved == WriteText(files, ParsedPath, DocumentText(title))
         IN  [fs |-> IF title # "" THEN UpdateIndex(saved, PaperId, title) ELSE saved,
              source |-> "pdf", raised |-> FALSE, title |-> title]

\* What a whole call leaves alone
cliIdle == <<pc, job, loaded, solo, n_added, n_calls, parseVars, renderVars, headerVars>>

Outcome(raised) == IF raised THEN "raised" ELSE "returned"

\* What a download leaves when fetch_paper starts one; fetch_paper starts
\* none when paper.pdf exists
DownloadsNow == IF fs[PdfPath].exists THEN {Absent} ELSE Downloads

\* fetch_paper(reference)
CallFetchPaper ==
    \E download \in DownloadsNow :
        LET fetched == FetchPaper(fs, download)
        IN  /\ fs' = fetched.fs
            /\ last' = [op |-> "fetch_paper", arg |-> "", loaded |-> "",
                        ret |-> Outcome(fetched.raised), wrote |-> fetched.fs # fs]
            /\ UNCHANGED <<cliIdle, procVars>>

\* parse_paper(arxiv_id, pdf_path)
CallParsePaper ==
    LET parsed == ParsePaper(fs)
    IN  /\ fs' = parsed.fs
        /\ last' = [op |-> "parse_paper", arg |-> parsed.title, loaded |-> parsed.source,
                    ret |-> Outcome(parsed.raised), wrote |-> parsed.fs # fs]
        /\ UNCHANGED <<cliIdle, procVars>>

\* What _load_model finds around it: the doclayout_yolo package can be
\* imported, a download of the weights would succeed, YOLOv10(path) returns
\* (a later step is looked at only when the earlier ones succeed)
ModelEnvs ==
    {env \in [package : BOOLEAN, download : BOOLEAN, construct : BOOLEAN] :
        /\ env.download => env.package
        /\ env.construct => env.download}

\* _load_model that constructs the model on every call
LoadModelEveryTime(instance, built, files, env) ==
    IF ~env.package \/ (~files[ModelPath].exists /\ ~env.download) \/ ~env.construct
    THEN [instance |-> instance, built |-> built, fs |-> files, raised |-> TRUE]
    ELSE [instance |-> built + 1, built |-> built + 1,
          fs |-> WriteText(files, ModelPath, <<"weights">>), raised |-> FALSE]

\* _load_model(): [instance, built, fs, raised]; a constructed model is
\* named by its number among the models the process has constructed
LoadModel(instance, built, files, env) ==
    IF instance # NoInstance
    THEN [instance |-> instance, built |-> built, fs |-> files, raised |-> FALSE]
    ELSE IF ~env.package
    THEN [instance |-> instance, built |-> built, fs |-> files, raised |-> TRUE]
    ELSE IF ~files[ModelPath].exists /\ ~env.download
    THEN [instance |-> instance, built |-> built, fs |-> files, raised |-> TRUE]
    ELSE LET got == IF files[ModelPath].exists THEN files
                    ELSE WriteText(files, ModelPath, <<"weights">>)
         IN  IF ~env.construct
             THEN [instance |-> instance, built |-> built, fs |-> got, raised |-> TRUE]
             ELSE [instance |-> built + 1, built |-> built + 1, fs |-> got,
                   raised |-> FALSE]

MaxElements == 2

Detection(kind, page, y0) == [kind |-> kind, page |-> page, y0 |-> y0, label |-> << >>]

\* The elements a page can show
Detectable == {Detection("figure", 0, 2), Detection("table", 0, 1)}

\* What the model can detect in a PDF of num_pages pages, in the order
\* all_elements.extend collects it: page by page, in any order on a page
FoundOn(num_pages) ==
    {found \in UNION {[1..n -> {d \in Detectable : d.page < num_pages}] :
                      n \in 0..MaxElements} :
        \A i \in 1..(Len(found) - 1) : found[i].page <= found[i + 1].page}

\* What detect_all_pages can return for a PDF of num_pages pages
DetectedOn == [num_pages \in 0..MaxPages |-> {DetectAllPages(found) : found \in FoundOn(num_pages)}]

\* detect_layout that ignores layout.json
DetectLayoutAlways(files, instance, built, force, env, elements) ==
    LET model == LoadModel(instance, built, files, env)
    IN  IF ~IsPdf(files[PdfPath])
        THEN [fs |-> files, instance |-> instance, built |-> built, source |-> "detect",
              raised |-> TRUE, elements |-> << >>]
        ELSE IF model.raised
        THEN [fs |-> model.fs, instance |-> model.instance, built |-> model.built,
              source |-> "detect", raised |-> TRUE, elements |-> << >>]
        ELSE [fs |-> SaveLayout(model.fs, elements),
              instance |-> model.instance, built |-> model.built, source |-> "detect",
              raised |-> FALSE, elements |-> elements]

\* detect_layout(paper_id, pdf_path, force): [fs, instance, built, source,
\* raised, elements], elements being what detect_all_pages returns when it
\* runs to its end.  The PDF has at least one page, so detect_all_pages
\* calls detect_page, and with it _load_model, before it returns.
DetectLayout(files, instance, built, force, env, elements) ==
    LET model == LoadModel(instance, built, files, env)
        cached == LoadLayout(files)
    IN  IF ~force /\ files[LayoutPath].exists
        THEN [fs |-> files, instance |-> instance, built |-> built, source |-> "cache",
              raised |-> cached.raised, elements |-> cached.elements]
        ELSE IF ~IsPdf(files[PdfPath])
        THEN [fs |-> files, instance |-> instance, built |-> built, source |-> "detect",
              raised |-> TRUE, elements |-> << >>]
        ELSE IF model.raised
        THEN [fs |-> model.fs, instance |-> model.instance, built |-> model.built,
              source |-> "detect", raised |-> TRUE, elements |-> << >>]
        ELSE [fs |-> SaveLayout(model.fs, elements),
              instance |-> model.instance, built |-> model.built, source |-> "detect",
              raised |-> FALSE, elements |-> elements]

\* What a detect_layout call depends on besides the files: nothing when it
\* returns the cache or cannot open the PDF, else what _load_model finds
\* and, when the model runs, what detect_all_pages returns
DetectInputs(force) ==
    IF (~force /\ fs[LayoutPath].exists) \/ ~IsPdf(fs[PdfPath])
    THEN {[env |-> [package |-> FALSE, download |-> FALSE, construct |-> FALSE],
           elements |-> << >>]}
    ELSE UNION {{[env |-> env, elements |-> elements] :
                    elements \in IF LoadModel(model_instance, n_built, fs, env).raised
                                 THEN {<< >>}
                                 ELSE DetectedOn[NumPages(fs[PdfPath])]} :
                env \in ModelEnvs}

\* detect_layout(paper_id, pdf_path, force)
CallDetectLayout ==
    \E force \in BOOLEAN :
        \E given \in DetectInputs(force) :
            LET detected == DetectLayout(fs, model_instance, n_built, force, given.env,
                                         given.elements)
            IN  /\ fs' = detected.fs
                /\ model_instance' = detected.instance
                /\ n_built' = detected.built
                /\ last' = [op |-> "detect_layout", arg |-> force,
                            loaded |-> [source |-> detected.source,
                                        elements |-> detected.elements],
                            ret |-> Outcome(detected.raised), wrote |-> detected.fs # fs]
                /\ UNCHANGED cliIdle

\* _load_model(), as detect_page calls it
CallLoadModel ==
    \E env \in ModelEnvs :
        LET model == LoadModel(model_instance, n_built, fs, env)
        IN  /\ fs' = model.fs
            /\ model_instance' = model.instance
            /\ n_built' = model.built
            /\ last' = [op |-> "_load_model", arg |-> model_instance,
                        loaded |-> fs[ModelPath].exists,
                        ret |-> IF model.raised THEN NoInstance ELSE model.instance,
                        wrote |-> model.fs # fs]
            /\ UNCHANGED cliIdle

\* The process ends and the next command starts a new one
ProcessExit ==
    /\ model_instance' = NoInstance
    /\ n_built' = 0
    /\ last' = [op |-> "exit", arg |-> "", loaded |-> "", ret |-> "", wrote |-> FALSE]
    /\ UNCHANGED <<fs, cliIdle>>

\* search_pdf(pdf_path, query): the page of each match.  The text "a" is
\* once on the first page, the text "b" twice on the second.
SearchPdf(file, query) ==
    IF query = "a" THEN <<0>>
    ELSE IF NumPages(file) >= 2 THEN <<1, 1>> ELSE << >>

\* hl["page"] of a stored highlight: the page its text was found on
PageOf(h) == SearchPdf([exists |-> TRUE, text |-> PdfText("", MaxPages)], h.text)[1]

\* The annotation page.add_highlight_annot adds for a highlight
AnnotToken(h) == "highlight " \o NumStr[h.id]

\* What annotate_pdf leaves in the copy: the source and one annotation for
\* each highlight whose page the PDF has
AnnotatedText(file, highlights) ==
    LET shown == SelectSeq(highlights, LAMBDA h : PageOf(h) < NumPages(file))
    IN  file.text \o [k \in 1..Len(shown) |-> AnnotToken(shown[k])]

\* annotate_pdf writing the annotations into the source PDF
AnnotateInPlace(files, highlights) ==
    [files EXCEPT ![PdfPath] = FileOf(AnnotatedText(files[PdfPath], highlights))]

\* annotate_pdf(pdf_path, output_path, highlights): shutil.copy2, then the
\* annotations, then doc.save
AnnotatePdf(files, highlights) ==
    [files EXCEPT ![AnnotatedPath] = FileOf(AnnotatedText(files[PdfPath], highlights))]

\* The match highlight_add selects: 0 when it exits without one.  pick is
\* --pick (0: not given); the interactive prompt is a pick made later.
Selected(matches, pick) ==
    IF Len(matches) = 1 THEN 1
    ELSE IF pick # 0 /\ pick >= 1 /\ pick <= Len(matches) THEN pick
    ELSE 0

\* `paper highlight add`: [fs, status], status one of "exit 1", "exit 0"
\* (matches listed), "json", "raised" and "added"
HighlightAdd(files, download, query, pick, return_json) ==
    LET fetched == FetchPaper(files, download)
        parsed == ParsePaper(fetched.fs)
        matches == SearchPdf(parsed.fs[PdfPath], query)
        added == SaveHighlights(parsed.fs,
                                AddedHighlights(LoadHighlights(parsed.fs), query))
    IN  IF fetched.raised THEN [fs |-> fetched.fs, status |-> "exit 1"]
        ELSE IF parsed.raised THEN [fs |-> parsed.fs, status |-> "exit 1"]
        ELSE IF ~IsPdf(parsed.fs[PdfPath]) THEN [fs |-> parsed.fs, status |-> "raised"]
        ELSE IF matches = << >> THEN [fs |-> parsed.fs, status |-> "exit 1"]
        ELSE IF Selected(matches, pick) = 0
        THEN [fs |-> parsed.fs, status |-> IF pick # 0 THEN "exit 1" ELSE "exit 0"]
        ELSE IF return_json THEN [fs |-> parsed.fs, status |-> "json"]
        ELSE [fs |-> AnnotatePdf(added, LoadHighlights(added)), status |-> "added"]

\* `paper highlight remove`: [fs, status], status one of "exit 1", "raised"
\* and "removed"
HighlightRemove(files, download, highlight_id) ==
    LET fetched == FetchPaper(files, download)
        parsed == ParsePaper(fetched.fs)
        highlights == LoadHighlights(parsed.fs)
        kept == RemainingHighlights(highlights, highlight_id)
        saved == SaveHighlights(parsed.fs, kept)
        remaining == LoadHighlights(saved)
    IN  IF fetched.raised THEN [fs |-> fetched.fs, status |-> "exit 1"]
        ELSE IF parsed.raised THEN [fs |-> parsed.fs, status |-> "exit 1"]
        ELSE IF Len(kept) = Len(highlights) THEN [fs |-> parsed.fs, status |-> "exit 1"]
        ELSE IF remaining # << >>
        THEN IF IsPdf(saved[PdfPath])
             THEN [fs |-> AnnotatePdf(saved, remaining), status |-> "removed"]
             ELSE [fs |-> saved, status |-> "raised"]
        ELSE IF saved[AnnotatedPath].exists
        THEN [fs |-> [saved EXCEPT ![AnnotatedPath] = Absent], status |-> "removed"]
        ELSE [fs |-> saved, status |-> "removed"]

MaxCliId == 2

\* The values of --pick that differ in effect: not given (0), each match,
\* and one past the last match
Picks(query) == 0..(Len(SearchPdf([exists |-> TRUE, text |-> PdfText("", MaxPages)], query)) + 1)

\* paper highlight add REFERENCE QUERY [--pick N] [--json]
CliHighlightAdd ==
    \E download \in DownloadsNow, query \in HlTexts, return_json \in BOOLEAN :
        \E pick \in Picks(query) :
            LET done == HighlightAdd(fs, download, query, pick, return_json)
            IN  /\ NextId(LoadHighlights(fs)) <= MaxCliId
                /\ fs' = done.fs
                /\ last' = [op |-> "highlight_add", arg |-> query, loaded |-> "",
                            ret |-> done.status, wrote |-> done.fs # fs]
                /\ UNCHANGED <<cliIdle, procVars>>

\* paper highlight remove REFERENCE HIGHLIGHT_ID
CliHighlightRemove ==
    \E download \in DownloadsNow, highlight_id \in 1..MaxCliId :
        LET done == HighlightRemove(fs, download, highlight_id)
        IN  /\ fs' = done.fs
            /\ last' = [op |-> "highlight_remove", arg |-> highlight_id, loaded |-> "",
                        ret |-> done.status, wrote |-> done.fs # fs]
            /\ UNCHANGED <<cliIdle, procVars>>

\* update_index for another paper
CallUpdateIndexOther == CallUpdateIndexOf(PaperIds \ {PaperId}, {"U"})

CliNext ==
    \/ CallFetchPaper
    \/ CallParsePaper
    \/ CallUpdateIndexOther
    \/ CallDetectLayout
    \/ CliHighlightAdd
    \/ CliHighlightRemove

\* One process after another, each calling into layout.py
LayoutNext ==
    \/ CallFetchPaper
    \/ CallDetectLayout
    \/ CallLoadModel
    \/ ProcessExit

----------------------------------------------------------------------------
(* build_ref_registry on every bounded Document                            *)

MaxLinks == 4

RegistrySection(heading) ==
    [heading |-> heading, level |-> 1, content |-> << >>, sentences |-> << >>,
     spans |-> <<[start |-> 0, end |-> 0]>>, page_start |-> 0, page_end |-> 0]

RegistrySections ==
    {<< >>,
     <<RegistrySection(<<"A">>)>>,
     <<RegistrySection(<<"A">>), RegistrySection(<<"B">>)>>}

\* The elements a page can show: two figures on one page, a table beside
\* them, an equation on the next page
RegistryDetectable ==
    {Detection("figure", 0, 2), Detection("figure", 0, 1),
     Detection("table", 0, 1), Detection("equation", 1, 1)}

\* Page by page, in any order on a page
RegistryFound ==
    {found \in UNION {[1..n -> RegistryDetectable] : n \in 0..MaxElements} :
        \A i \in 1..(Len(found) - 1) : found[i].page <= found[i + 1].page}

\* doc.layout_elements as _load_with_layout sets it
RegistryLayouts == {DetectAllPages(found) : found \in RegistryFound}

NoSpan == [start |-> 0, end |-> 0]

\* Two URLs and two citation markers; a sequence can repeat each of them
RegistryLinkPool ==
    {MkLink("external", <<"x">>, <<"u">>, NoPos, 0, NoSpan, << >>),
     MkLink("external", << >>, <<"v">>, NoPos, 0, NoSpan, << >>),
     MkLink("citation", <<"[","1","]">>, << >>, NoPos, 0, NoSpan, << >>),
     MkLink("citation", <<"[","2","]">>, << >>, NoPos, 0, NoSpan, << >>)}

RegistryDocs ==
    {[MkDocument(sections, << >>, links) EXCEPT !.layout_elements = layout] :
        sections \in RegistrySections,
        layout \in RegistryLayouts,
        links \in {<< >>} \cup SeqsUpTo(RegistryLinkPool, MaxLinks)}

registryIdle == <<r_doc, r_sec, r_pos, r_seen, r_out, notRender>>

\* registry = build_ref_registry(doc)
CallBuildRefRegistry ==
    /\ r_pc = "start"
    /\ r_registry' = BuildRefRegistry(r_doc)
    /\ r_pc' = "built"
    /\ UNCHANGED registryIdle

\* A second call on the same Document
CallBuildRefRegistryAgain ==
    /\ r_pc = "built"
    /\ r_registry' = BuildRefRegistry(r_doc)
    /\ r_pc' = "again"
    /\ UNCHANGED registryIdle

RegistryNext == CallBuildRefRegistry \/ CallBuildRefRegistryAgain

----------------------------------------------------------------------------
(* _find_cite_end_in_text on every bounded surface text                    *)

MaxPieces == 3

CiteHu == <<"(","H","u"," ","e","t"," ","a","l",".",","," ","2","0","2","2",")">>
CiteHao == <<"(","H","a","o"," ","e","t"," ","a","l",".",","," ","2","0","2","4",")">>
TxtHuhEtAl == <<"H","u","h"," ","e","t"," ","a","l",".">>

\* What a sentence is put together from
FindPieces ==
    {TxtHuhEtAl,
     <<",", " ", "2","0","2","2">>,
     <<",", " ", "2","0","2","4", " ", ")">>,
     <<"H","u">>,
     <<"H","a","o">>,
     <<"s">>,
     <<" ">>}

RECURSIVE Concat(_)
Concat(pieces) == IF pieces = << >> THEN << >> ELSE pieces[1] \o Concat(Tail(pieces))

FindTexts == {Concat(pieces) : pieces \in {<< >>} \cup SeqsUpTo(FindPieces, MaxPieces)}

FindLinks == {CiteHu, CiteHao}

\* pos = _find_cite_end_in_text(text, link), once
CallFindCiteEndInText ==
    /\ last.op = "none"
    /\ \E text \in FindTexts, link_text \in FindLinks :
          last' = [op |-> "_find_cite_end_in_text",
                   arg |-> [text |-> text, link_text |-> link_text],
                   loaded |-> << >>,
                   ret |-> FindCiteEndInText(text, link_text),
                   wrote |-> FALSE]
    /\ UNCHANGED <<fs, pc, job, loaded, solo, n_added, n_calls, notStore>>

FindNext == CallFindCiteEndInText

----------------------------------------------------------------------------
(* Specifications                                                          *)

ParseIdle == ParseInit({MkPdf(<< >>, << >>, << >>)})

RenderIdle == RenderInit({MkDocument(<< >>, << >>, << >>)})

MaxAnnots == 3

DestSec == <<"s","e","c",".","1">>

\* A link annotation on line `line` of page 1
Annot(kind, line, text, uri, dest, target_page) ==
    [kind |-> kind, page |-> 1, line |-> line, text |-> text, uri |-> uri,
     dest |-> dest, target_page |-> target_page]

\* A URL, a page jump, a citation destination and another named destination,
\* each of which an annotation sequence can repeat
AnnotPool ==
    {Annot("uri", 2, <<"A","a">>, <<"u">>, << >>, NoPos),
     Annot("goto", 2, <<"b","b">>, << >>, << >>, 2),
     Annot("named", 2, <<"C","c">>, << >>, DestHu, 2),
     Annot("named", 2, <<"d","d">>, << >>, DestSec, 2)}

\* A title on page 0 and a body line on page 1 that carries the annotations
LinkInputs ==
    {MkPdf(Paged(<<Ln(TxtTitle, 200, FALSE), Ln(TxtBody, 100, FALSE)>>, 1), << >>, annots) :
        annots \in SeqsUpTo(AnnotPool, MaxAnnots)}

MaxCiteLines == 2

TxtShown ==
    <<"A","s"," ","s","h","o","w","n"," ","i","n"," ","[","1","]",","," ","t","h","e"," ",
      "m","e","t","h","o","d"," ","w","o","r","k","s",".">>
TxtTwoMarkers == <<"[","2",","," ","3","]"," ","[","1","]">>
TxtLetterMarker == <<"[","a","]"," ","[","1","-","5","]">>

\* Body lines with bracketed markers, numeric and not
CiteLinePool ==
    {Ln(TxtNumCite, 100, FALSE), Ln(TxtShown, 100, FALSE),
     Ln(TxtTwoMarkers, 100, FALSE), Ln(TxtLetterMarker, 100, FALSE)}

CiteInputs ==
    {MkPdf(Paged(ls, 1), << >>, << >>) : ls \in SeqsUpTo(CiteLinePool, MaxCiteLines)}

ParseInputs == FontInputs \cup OutlineInputs \cup LinkInputs \cup CiteInputs

StoreIdle == StoreInit({NoFiles})

InitParse ==
    /\ RenderIdle
    /\ StoreIdle
    /\ ParseInit(ParseInputs)

InitRender ==
    /\ ParseIdle
    /\ StoreIdle
    /\ RenderInit(RenderDocs)

InitStore ==
    /\ ParseIdle
    /\ RenderIdle
    /\ StoreInit(StoreFiles)

\* The parser on every bounded PDF
SpecParse == InitParse /\ [][ParseNext]_vars

\* render_full on every bounded Document
SpecRender == InitRender /\ [][RenderNext]_vars

\* Sequential calls on the cache directory
SpecStore == InitStore /\ [][StoreNext]_vars

InitCache ==
    /\ ParseIdle
    /\ RenderIdle
    /\ StoreInit(CacheFilesInit)

\* One writer that can be killed at any step, and a reader
SpecCache == InitCache /\ [][CacheNext]_vars

InitConc ==
    /\ ParseIdle
    /\ RenderIdle
    /\ StoreInit({NoFiles})

\* Two concurrent writers of highlights.json
SpecConc == InitConc /\ [][ConcNext]_vars

InitCli ==
    /\ ParseIdle
    /\ RenderIdle
    /\ StoreInit({NoFiles})

\* Whole calls on an empty cache directory
SpecCli == InitCli /\ [][CliNext]_vars

InitLayout ==
    /\ ParseIdle
    /\ RenderIdle
    /\ StoreInit({NoFiles})

\* Layout detection in a sequence of processes
SpecLayout == InitLayout /\ [][LayoutNext]_vars

InitRegistry ==
    /\ ParseIdle
    /\ StoreIdle
    /\ RenderInit(RegistryDocs)

\* build_ref_registry, called twice, on every bounded Document
SpecRegistry == InitRegistry /\ [][RegistryNext]_vars

InitFind ==
    /\ ParseIdle
    /\ RenderIdle
    /\ StoreIdle

\* _find_cite_end_in_text on one bounded text and citation
SpecFind == InitFind /\ [][FindNext]_vars

----------------------------------------------------------------------------
(* Claims about render_full                                                *)

\* How many times the tag of ref_id occurs in the printed texts
RECURSIVE TagCount(_, _)
TagCount(out, ref_id) ==
    IF out = << >> THEN 0
    ELSE Cardinality({i \in 1..Len(out[1]) : out[1][i] = RefTag(ref_id)})
         + TagCount(Tail(out), ref_id)

CitationRefs(registry) ==
    {registry[k].ref_id : k \in {j \in 1..Len(registry) : registry[j].kind = "citation"}}

\* C1: when render_full has printed every section, the tag of every
\* citation ref_id of the registry has been emitted exactly once.
C1_TaggedExactlyOnce ==
    r_pc = "done" =>
        \A ref_id \in CitationRefs(r_registry) : TagCount(r_out, ref_id) = 1

----------------------------------------------------------------------------
(* Claims about the Document built by _extract_document                    *)

SpanInText(span, raw_text) ==
    0 <= span.start /\ span.start <= span.end /\ span.end <= Len(raw_text)

\* C2: every Span of the Document the parser builds (the primary span of
\* each section, the span of each sentence, the span of each link) satisfies
\* 0 <= start <= end <= len(raw_text).
C2_SpansInRawText ==
    /\ p_stage \in {"segmented", "split", "done"} =>
          \A i \in 1..Len(p_sections) :
              /\ SpanInText(p_sections[i].spans[1], p_raw_text)
              /\ \A k \in 1..Len(p_sections[i].sentences) :
                    SpanInText(p_sections[i].sentences[k].span, p_raw_text)
    /\ p_stage = "done" =>
          \A k \in 1..Len(p_links) : SpanInText(p_links[k].span, p_raw_text)

\* C3: in a parsed Document with at least two sections the primary span of
\* each section ends exactly where the primary span of the next one begins.
C3_SectionsContiguous ==
    p_stage = "done" =>
        \A i \in 1..(Len(p_sections) - 1) :
            p_sections[i].spans[1].end = p_sections[i + 1].spans[1].start

----------------------------------------------------------------------------
(* Claims about the highlight store and the index under sequential calls   *)

Ids(highlights) == {highlights[k].id : k \in 1..Len(highlights)}

Corrupted(file) == file.exists /\ ~JsonLoads(file.text).ok

\* C4: add_highlight gives the new highlight the id max(stored ids) + 1, 1
\* when nothing is stored, and after any sequence of add_highlight and
\* remove_highlight calls the stored highlights have pairwise distinct ids.
C4_IdIsMaxPlusOne ==
    /\ last.op = "add_highlight" =>
          last.ret.id = IF last.loaded = << >> THEN 1
                        ELSE SetMax(Ids(last.loaded)) + 1
    /\ LET stored == LoadHighlights(fs)
       IN  \A i, j \in 1..Len(stored) : i # j => stored[i].id # stored[j].id

\* add_highlight after a removal left a gap below the maximum
C4_Witness ==
    /\ last.op = "add_highlight"
    /\ last.loaded # << >>
    /\ last.ret.id > Len(last.loaded) + 1

\* C5: add_highlight appends exactly one record after the stored ones and
\* changes none of them; remove_highlight of a stored id returns True and
\* deletes exactly the records with that id, keeping the others in order.
C5_InsertionOrdered ==
    /\ last.op = "add_highlight" =>
          /\ LoadHighlights(fs) = last.loaded \o <<last.ret>>
          /\ last.ret.text = last.arg
    /\ (last.op = "remove_highlight" /\ last.arg \in Ids(last.loaded)) =>
          /\ last.ret = TRUE
          /\ LoadHighlights(fs) = SelectSeq(last.loaded, LAMBDA h : h.id # last.arg)

\* remove_highlight took the middle one of three records
C5_Witness ==
    /\ last.op = "remove_highlight"
    /\ Len(last.loaded) = 3
    /\ last.arg = last.loaded[2].id
    /\ Len(LoadHighlights(fs)) = 2

\* add_highlight appended to a store that held records
C5_WitnessAdd ==
    /\ last.op = "add_highlight"
    /\ Len(last.loaded) >= 1

\* C6: remove_highlight with an id no stored highlight has returns False,
\* writes nothing and leaves every file as it was.
C6_RemoveMissingIsNoOp ==
    [][(last'.op = "remove_highlight" /\ last'.arg \notin Ids(last'.loaded)) =>
          (last'.ret = FALSE /\ ~last'.wrote /\ fs' = fs)]_vars

\* remove_highlight of an id that is not stored, on a store that holds records
C6_Witness ==
    /\ last.op = "remove_highlight"
    /\ last.loaded # << >>
    /\ last.arg \notin Ids(last.loaded)

\* remove_highlight when highlights.json does not exist
C6_WitnessAbsent ==
    /\ last.op = "remove_highlight"
    /\ ~fs[HlPath].exists

\* C9: when index.json, metadata.json or highlights.json holds text that is
\* not valid JSON, list_papers returns {}, load_metadata returns None and
\* load_highlights returns []; update_index and add_highlight on such a file
\* leave a valid file that contains the new entry.
C9_CorruptedIsAbsent ==
    [][/\ (last'.op = "list_papers" /\ Corrupted(fs[IndexPath])) =>
              last'.ret = << >>
       /\ (last'.op = "load_metadata" /\ Corrupted(fs[MetadataPath])) =>
              last'.ret.none
       /\ (last'.op = "load_highlights" /\ Corrupted(fs[HlPath])) =>
              last'.ret = << >>
       /\ (last'.op = "update_index" /\ Corrupted(fs[IndexPath])) =>
              /\ JsonLoads(fs'[IndexPath].text).ok
              /\ ListPapers(fs') = <<last'.arg>>
       /\ (last'.op = "add_highlight" /\ Corrupted(fs[HlPath])) =>
              /\ JsonLoads(fs'[HlPath].text).ok
              /\ LoadHighlights(fs') = <<[id |-> 1, text |-> last'.arg]>>
      ]_vars

\* list_papers has read an index.json that is not valid JSON
C9_Witness ==
    /\ last.op = "list_papers"
    /\ Corrupted(fs[IndexPath])
    /\ last.ret = << >>

----------------------------------------------------------------------------
(* Claims about the cache files under a writer that can be killed, and     *)
(* under two concurrent writers                                            *)

\* The file holds the beginning of a JSON text and not all of it
PartlyWritten(file) ==
    /\ file.exists
    /\ ~JsonLoads(file.text).ok
    /\ (file.text = << >> \/ file.text[1] \in {"[", "{"})

\* C7: with a single writer, parsed.json, layout.json, highlights.json and
\* index.json never hold a partially written text, whatever step the writer
\* has reached or was killed at, so no reader can observe one.
C7_NoPartialCacheFile ==
    \A path \in CacheFiles : ~PartlyWritten(fs[path])

Stored == LoadHighlights(fs)

HasRecord(highlights, id, text) ==
    \E k \in 1..Len(highlights) : highlights[k] = [id |-> id, text |-> text]

\* C8: as long as no two invocations of add_highlight have overlapped, every
\* highlight an invocation returned is stored, under an id of its own; two
\* invocations that both loaded the same list and both returned were given
\* the same id, and highlights.json holds fewer records than were added.
C8_LostUpdateOnlyWhenConcurrent ==
    /\ solo =>
          /\ Len(Stored) = n_added
          /\ \A i, j \in 1..Len(Stored) : i # j => Stored[i].id # Stored[j].id
          /\ \A p \in Procs :
                job[p].status = "returned" => HasRecord(Stored, job[p].id, job[p].arg)
    /\ \A p, q \in Procs :
          (/\ p # q
           /\ job[p].status = "returned"
           /\ job[q].status = "returned"
           /\ job[p].base = job[q].base) =>
              /\ job[p].id = job[q].id
              /\ Len(Stored) < n_added

\* Both invocations have returned the same id and one record is missing
C8_Witness ==
    /\ job[1].status = "returned"
    /\ job[2].status = "returned"
    /\ job[1].id = job[2].id
    /\ job[1].arg # job[2].arg
    /\ Len(Stored) = 1
    /\ n_added = 2

\* C10: parse_paper and detect_layout do not fail when parsed.json or
\* layout.json exists and is not valid JSON.
C10_CorruptedCacheTolerated ==
    last.op \in {"parse_paper", "detect_layout"} => last.ret # "raised"


----------------------------------------------------------------------------
(* Claims about whole calls on one paper                                   *)

\* C11: a parse_paper call that fails because the PDF is missing or is not
\* a PDF changes no file, so parsed.json is still absent and index.json is
\* as it was; and a parse_paper call made while parsed.json is absent opens
\* the PDF (again).
C11_FailedParseCachesNothing ==
    [][last'.op = "parse_paper" =>
          /\ (last'.ret = "raised" /\ last'.loaded = "pdf") =>
                /\ ~fs'[ParsedPath].exists
                /\ fs'[IndexPath] = fs[IndexPath]
                /\ fs' = fs
          /\ ~fs[ParsedPath].exists => last'.loaded = "pdf"]_vars

\* parse_paper has just failed on a file that is not a PDF, with an index
\* that other papers have entries in
C11_Witness ==
    /\ last.op = "parse_paper"
    /\ last.ret = "raised"
    /\ last.loaded = "pdf"
    /\ fs[PdfPath] = FileOf(Garbage)
    /\ fs[IndexPath].exists
    /\ ~fs[ParsedPath].exists

\* The files a step has changed
Changed == {path \in Paths : fs'[path] # fs[path]}

\* C12: while parsed.json exists no call changes it: parse_paper reads the
\* cache, returns the title it holds and writes nothing; detect_layout
\* writes only layout.json (through layout.tmp) and the model weights; the
\* highlight commands write only highlights.json (through highlights.tmp)
\* and the annotated copy; update_index writes only index.json.
C12_ParsedIsReadOnly ==
    [][fs[ParsedPath].exists =>
          /\ fs'[ParsedPath] = fs[ParsedPath]
          /\ last'.op = "parse_paper" =>
                /\ last'.loaded = "cache"
                /\ last'.ret = "returned"
                /\ last'.arg = DocumentLoad(fs[ParsedPath]).title
                /\ Changed = {}
          /\ last'.op = "detect_layout" => Changed \subseteq {LayoutPath, ModelPath}
          /\ last'.op \in {"highlight_add", "highlight_remove"} =>
                Changed \subseteq {HlPath, AnnotatedPath}
          /\ last'.op = "update_index" => Changed \subseteq {IndexPath}]_vars

\* parse_paper has returned the cached Document of a paper that has layout
\* elements and highlights stored
C12_Witness ==
    /\ last.op = "parse_paper"
    /\ last.loaded = "cache"
    /\ last.arg = "T"
    /\ LoadLayout(fs).elements # << >>
    /\ LoadHighlights(fs) # << >>
    /\ fs[ParsedPath] = FileOf(DocumentText("T"))

----------------------------------------------------------------------------
(* Claims about build_ref_registry                                         *)

KindRank(kind) ==
    CASE kind = "section" -> 1
      [] kind \in Kinds -> 2
      [] kind = "external" -> 3
      [] kind = "citation" -> 4

RefIds(registry) == [k \in 1..Len(registry) |-> registry[k].ref_id]

EntryKinds(registry) == [k \in 1..Len(registry) |-> registry[k].kind]

\* C13: build_ref_registry returns all section entries, then all
\* layout-element entries, then all external-link entries, then all citation
\* entries, and a second call on the same Document returns the same sequence
\* of ref_ids.
C13_RegistryKindOrder ==
    [][r_pc' \in {"built", "again"} =>
          /\ \A i, j \in 1..Len(r_registry') :
                i < j => KindRank(r_registry'[i].kind) <= KindRank(r_registry'[j].kind)
          /\ \A k \in 1..Len(r_registry') :
                r_registry'[k].kind \in {"section", "external", "citation"} \cup Kinds
          /\ r_pc' = "again" => RefIds(r_registry') = RefIds(r_registry)]_vars

\* Two sections, two external links and two citations, built twice
C13_Witness ==
    /\ r_pc = "again"
    /\ Len(r_doc.sections) = 2
    /\ r_doc.layout_elements = << >>
    /\ EntryKinds(r_registry) =
          <<"section", "section", "external", "external", "citation", "citation">>

\* The values of a sequence, each once, in the order they first occur
RECURSIVE EachOnce(_)
EachOnce(seq) ==
    IF seq = << >> THEN << >>
    ELSE LET rest == EachOnce(SubSeq(seq, 1, Len(seq) - 1))
             x == seq[Len(seq)]
         IN  IF \E k \in 1..Len(rest) : rest[k] = x THEN rest ELSE Append(rest, x)

EntriesOf(registry, kind) == SelectSeq(registry, LAMBDA e : e.kind = kind)

LinksOf(doc, kind) == SelectSeq(doc.links, LAMBDA l : l.kind = kind)

Prefix(kind) ==
    CASE kind = "section" -> "s" [] kind = "figure" -> "f" [] kind = "table" -> "t"
      [] kind = "equation" -> "eq" [] kind = "external" -> "e" [] kind = "citation" -> "c"

\* C14: sections are numbered s1..sN in document order; layout elements
\* f1.., t1.., eq1.. per kind in (page, y0) order; external links e1.. one
\* per distinct URL in first-seen order; citations c1.. one per distinct
\* marker text in first-seen order; the numbers of a kind are consecutive
\* from 1 and no ref_id occurs twice.
C14_RegistryNumbering ==
    r_pc \in {"built", "again"} =>
        LET ns == Len(r_doc.sections)
            nl == Len(r_doc.layout_elements)
            externals == EntriesOf(r_registry, "external")
            citations == EntriesOf(r_registry, "citation")
            urls == LET links == LinksOf(r_doc, "external")
                    IN  EachOnce([k \in 1..Len(links) |-> links[k].url])
            markers == LET links == LinksOf(r_doc, "citation")
                       IN  EachOnce([k \in 1..Len(links) |-> links[k].text])
        IN  /\ \A kind \in {"section", "external", "citation"} \cup Kinds :
                  LET entries == EntriesOf(r_registry, kind)
                  IN  RefIds(entries) = [n \in 1..Len(entries) |-> Prefix(kind) \o NumStr[n]]
            /\ \A i \in 1..ns :
                  /\ r_registry[i].kind = "section"
                  /\ r_registry[i].target = r_doc.sections[i].heading
            /\ Len(EntriesOf(r_registry, "section")) = ns
            /\ \A i \in 1..nl : r_registry[ns + i].kind = r_doc.layout_elements[i].kind
            /\ \A i, j \in 1..nl :
                  (i < j /\ r_doc.layout_elements[i].kind = r_doc.layout_elements[j].kind) =>
                      ~PageYLess(r_doc.layout_elements[j], r_doc.layout_elements[i])
            /\ [k \in 1..Len(externals) |-> externals[k].target] = urls
            /\ [k \in 1..Len(citations) |-> citations[k].target] = markers
            /\ \A i, j \in 1..Len(r_registry) :
                  r_registry[i].ref_id = r_registry[j].ref_id => i = j

\* Two sections, two figures of one page, a repeated URL and a repeated
\* marker
C14_Witness ==
    /\ r_pc = "built"
    /\ Len(r_doc.sections) = 2
    /\ Len(r_doc.layout_elements) = 2
    /\ r_doc.layout_elements[1].kind = "figure"
    /\ r_doc.layout_elements[2].kind = "figure"
    /\ r_doc.layout_elements[1].y0 < r_doc.layout_elements[2].y0
    /\ Len(r_doc.links) = 4
    /\ r_doc.links[1] = r_doc.links[3]
    /\ r_doc.links[2] = r_doc.links[4]
    /\ RefIds(r_registry) = <<"s1", "s2", "f1", "f2", "e1", "c1">>

----------------------------------------------------------------------------
(* Claims about annotate_text and _find_cite_end_in_text                   *)

\* The step is one annotate_text call with span_start and span_end
SentenceStep ==
    /\ r_pc = "section"
    /\ ~UsesContent(r_doc.sections[r_sec])
    /\ r_pos' = r_pos + 1

\* C15: over the annotate_text calls with spans that share one seen_refs
\* set, a call never inserts a ref_id that is already in seen_refs and never
\* inserts the same ref_id twice into the string it returns.
C15_InsertedAtMostOnce ==
    [][SentenceStep =>
          \A ref_id \in CitationRefs(r_registry) :
              LET n == TagCount(<<r_out'[Len(r_out')]>>, ref_id)
              IN  /\ n <= 1
                  /\ ref_id \in r_seen => n = 0]_vars

\* The step is one annotate_text call of render_section, with or without a
\* span
AnnotateStep == r_pc = "section" /\ r_pos' = r_pos + 1

\* The ref_ids of the citations overlapping the sentence about to be
\* printed that are not yet in seen_refs
Candidates ==
    LET sentence == r_doc.sections[r_sec].sentences[r_pos + 1]
        overlapping == Overlapping(BuildCiteSpanIndex(r_doc, r_registry), 1,
                                   sentence.span.start, sentence.span.end, r_seen)
    IN  {overlapping[k][3] : k \in 1..Len(overlapping)}

\* C16: annotate_text adds a ref_id to seen_refs only when it inserted the
\* tag of that ref into the fragment it returns; a candidate whose citation
\* end cannot be located in the fragment stays out of seen_refs and gets no
\* tag in the returned fragment.
C16_SeenOnlyWhenInserted ==
    [][AnnotateStep =>
          LET returned == <<r_out'[Len(r_out')]>>
          IN  /\ \A ref_id \in r_seen' \ r_seen : TagCount(returned, ref_id) >= 1
              /\ r_seen \subseteq r_seen'
              /\ SentenceStep =>
                    \A ref_id \in Candidates :
                        LET text == r_doc.sections[r_sec].sentences[r_pos + 1].text
                            link_text == RefToLinkText(r_doc, r_registry, ref_id)
                        IN  FindCiteEndInText(text, link_text) = NoPos =>
                                /\ ref_id \notin r_seen'
                                /\ TagCount(returned, ref_id) = 0]_vars

\* A citation that overlaps two sentences of a section, could not be
\* located in the first and was placed in the second
C16_Witness ==
    /\ r_pc = "section"
    /\ ~UsesContent(r_doc.sections[r_sec])
    /\ r_pos >= 2
    /\ \E ref_id \in CitationRefs(r_registry) :
          LET first == r_doc.sections[r_sec].sentences[r_pos - 1]
              second == r_doc.sections[r_sec].sentences[r_pos]
              index == BuildCiteSpanIndex(r_doc, r_registry)
              both == {k \in 1..Len(index) :
                          /\ index[k][3] = ref_id
                          /\ index[k][1] < first.span.end
                          /\ index[k][2] > first.span.start
                          /\ index[k][1] < second.span.end
                          /\ index[k][2] > second.span.start}
          IN  /\ both # {}
              /\ TagCount(<<r_out[Len(r_out) - 1]>>, ref_id) = 0
              /\ TagCount(<<r_out[Len(r_out)]>>, ref_id) = 1
              /\ TagCount(r_out, ref_id) = 1
              /\ ref_id \in r_seen

\* word occurs in text with no letter directly before or after it
HasStandAlone(text, word) ==
    \E i \in 0..(Len(text) - Len(word)) :
        /\ Slice(text, i, i + Len(word)) = word
        /\ i > 0 => ~IsAlpha(text[i])
        /\ i + Len(word) < Len(text) => ~IsAlpha(text[i + Len(word) + 1])

FindCalled == last.op = "_find_cite_end_in_text"

\* C17: for citation text "(Hu et al., 2022)" and any surface text that
\* contains "Huh et al." but no stand-alone word "Hu", no placement is found:
\* the result is None.
C17_HuhNeverPlaced ==
    (/\ FindCalled
     /\ last.arg.link_text = CiteHu
     /\ StrFind(last.arg.text, TxtHuhEtAl, 0) # NoPos
     /\ ~HasStandAlone(last.arg.text, <<"H","u">>))
    => last.ret = NoPos

\* What the code returns when the surface text has no stand-alone occurrence
\* of the surname: no surname occurrence is used as the match, and the result
\* is None unless the year of the citation occurs exactly once in the text;
\* then it is the year-only placement after that year.
BoundaryThenYearOnly ==
    (FindCalled /\ ~HasStandAlone(last.arg.text, CiteSurname(last.arg.link_text))) =>
        LET text == last.arg.text
            year == CiteYear(last.arg.link_text)
            positions == Occurrences(text, year, 0)
        IN  last.ret = IF Len(positions) = 1
                       THEN SkipClose(text, positions[1] + Len(year))
                       ELSE NoPos

\* "(Hu et al., 2022)" against a text with "Huh et al." and one "2022":
\* placed after the year
HuhPlaced ==
    /\ FindCalled
    /\ last.arg.link_text = CiteHu
    /\ StrFind(last.arg.text, TxtHuhEtAl, 0) # NoPos
    /\ ~HasStandAlone(last.arg.text, <<"H","u">>)
    /\ last.ret # NoPos

----------------------------------------------------------------------------
(* Claims about layout detection                                           *)

\* C18: detect_layout without force runs no detection and returns the
\* cached elements whenever layout.json exists; with force, or without a
\* cache, it runs detection over all pages and replaces layout.json with the
\* new result, which later calls without force return.
C18_LayoutCache ==
    [][/\ last'.op = "detect_layout" =>
            IF ~last'.arg /\ fs[LayoutPath].exists
            THEN /\ last'.loaded.source = "cache"
                 /\ last'.ret = "returned"
                 /\ last'.loaded.elements = LoadLayout(fs).elements
                 /\ fs' = fs
                 /\ model_instance' = model_instance
                 /\ n_built' = n_built
            ELSE /\ last'.loaded.source = "detect"
                 /\ last'.ret = "returned" =>
                       /\ fs'[LayoutPath] = FileOf(LayoutText(last'.loaded.elements))
                       /\ LoadLayout(fs').elements = last'.loaded.elements
                       /\ model_instance' # NoInstance
                 /\ last'.ret = "raised" => fs'[LayoutPath] = fs[LayoutPath]
       /\ last'.op # "detect_layout" => fs'[LayoutPath] = fs[LayoutPath]]_vars

\* A call without force in a process that has no model returns the two
\* elements an earlier process detected
C18_Witness ==
    /\ last.op = "detect_layout"
    /\ ~last.arg
    /\ last.loaded.source = "cache"
    /\ Len(last.loaded.elements) = 2
    /\ model_instance = NoInstance
    /\ fs[LayoutPath] = FileOf(LayoutText(last.loaded.elements))

\* C19: within one process the layout model is constructed at most once; the
\* first successful load sets the process-wide instance, every later call
\* returns that instance without downloading or constructing again, and a
\* failed load leaves the instance unset so that a later call tries again.
C19_ModelSingleton ==
    [][/\ n_built' <= 1
       /\ model_instance' \in {NoInstance, 1}
       /\ (model_instance' = NoInstance) = (n_built' = 0)
       /\ last'.op = "_load_model" =>
            IF last'.arg # NoInstance
            THEN /\ last'.ret = last'.arg
                 /\ model_instance' = model_instance
                 /\ n_built' = n_built
                 /\ fs' = fs
            ELSE IF last'.ret # NoInstance
            THEN /\ model_instance' = last'.ret
                 /\ n_built' = n_built + 1
                 /\ fs'[ModelPath].exists
                 /\ fs[ModelPath].exists => fs' = fs
            ELSE /\ model_instance' = NoInstance
                 /\ n_built' = n_built
       /\ (last'.op \in {"_load_model", "detect_layout"} /\ model_instance # NoInstance) =>
            /\ model_instance' = model_instance
            /\ n_built' = n_built
            /\ fs'[ModelPath] = fs[ModelPath]]_vars

\* A load that returns the instance an earlier call constructed
C19_Witness ==
    /\ last.op = "_load_model"
    /\ last.arg = 1
    /\ last.ret = 1
    /\ n_built = 1

----------------------------------------------------------------------------
(* Claims about the annotated PDF                                          *)

\* The step is a highlight add that stored a highlight or a highlight remove
\* that removed one
HighlightsChanged ==
    \/ last'.op = "highlight_add" /\ last'.ret = "added"
    \/ last'.op = "highlight_remove" /\ last'.ret = "removed"

\* The source PDF with one annotation for each of the highlights
Annotated(source, highlights) ==
    FileOf(source.text \o [k \in 1..Len(highlights) |-> AnnotToken(highlights[k])])

\* C20: after every highlight add and every successful highlight remove the
\* annotated PDF copy is the source PDF with the annotations of all
\* highlights stored for the paper, and the source PDF is never modified.
C20_AlwaysRegenerated ==
    [][/\ fs[PdfPath].exists => fs'[PdfPath] = fs[PdfPath]
       /\ HighlightsChanged =>
             fs'[AnnotatedPath] = Annotated(fs'[PdfPath], LoadHighlights(fs'))]_vars

\* C20, amended: after every highlight add and every successful highlight
\* remove the annotated PDF copy is the source PDF with the annotations of
\* all highlights stored for the paper while at least one is stored, and does
\* not exist when none is left; the source PDF is never modified.
C20_RegeneratedOrDeleted ==
    [][/\ fs[PdfPath].exists => fs'[PdfPath] = fs[PdfPath]
       /\ HighlightsChanged =>
             IF LoadHighlights(fs') = << >>
             THEN ~fs'[AnnotatedPath].exists
             ELSE fs'[AnnotatedPath] = Annotated(fs'[PdfPath], LoadHighlights(fs'))]_vars

\* The last stored highlight was removed and the annotated copy is gone
C20_Witness ==
    /\ last.op = "highlight_remove"
    /\ last.ret = "removed"
    /\ LoadHighlights(fs) = << >>
    /\ IsPdf(fs[PdfPath])
    /\ ~fs[AnnotatedPath].exists

\* One of two stored highlights was removed and the copy shows the other
C20_WitnessRemaining ==
    /\ last.op = "highlight_remove"
    /\ last.ret = "removed"
    /\ Len(LoadHighlights(fs)) = 1
    /\ fs[AnnotatedPath] = Annotated(fs[PdfPath], LoadHighlights(fs))

----------------------------------------------------------------------------
(* Claims about heading detection and segmentation                         *)

\* C21: heading extraction, outline resolution, fragment merging and
\* segmentation complete without raising for every input, and when no
\* heading is detected the result is exactly one section titled
\* "(Full Document)" with level 1 and span [0, len(raw_text)).
C21_HeadingDetectionNeverFails ==
    /\ p_stage # "raised"
    /\ (p_stage \in {"segmented", "split", "done"} /\ p_headings = << >>) =>
          /\ Len(p_sections) = 1
          /\ p_sections[1].heading = FullDocumentHeading
          /\ p_sections[1].level = 1
          /\ p_sections[1].spans = <<[start |-> 0, end |-> Len(p_raw_text)]>>

\* The ways to cut n headings into consecutive groups: the group sizes
RECURSIVE Compositions(_)
Compositions(n) ==
    IF n = 0 THEN {<< >>}
    ELSE UNION {{<<k>> \o c : c \in Compositions(n - k)} : k \in 1..n}

RECURSIVE SumTo(_, _)
SumTo(sizes, k) == IF k = 0 THEN 0 ELSE sizes[k] + SumTo(sizes, k - 1)

\* The step is _merge_heading_fragments returning
MergeStep == p_stage = "headings" /\ p_stage' = "merged"

WithinOnePt(a, b) ==
    a.font_size # NoKey /\ b.font_size # NoKey /\ Abs(a.font_size - b.font_size) < 10

\* merged is headings cut into the groups of the given sizes: a group of
\* one is the heading itself; a larger group is one heading whose text is
\* the texts of its members joined by blanks, from the char_start of the
\* first to the char_end of the last, all members on one page and with font
\* sizes within 1pt; a bare section number that starts a group and is
\* followed on its page by a heading within 1pt is merged with it.
MergedInGroups(headings, merged, sizes) ==
    /\ Len(merged) = Len(sizes)
    /\ \A k \in 1..Len(sizes) :
          LET first == SumTo(sizes, k - 1) + 1
              final == SumTo(sizes, k)
              members == SubSeq(headings, first, final)
          IN  /\ sizes[k] = 1 => merged[k] = headings[first]
              /\ sizes[k] > 1 =>
                    /\ merged[k].heading =
                          StrJoin([j \in 1..Len(members) |-> members[j].heading], <<" ">>)
                    /\ merged[k].char_start = headings[first].char_start
                    /\ merged[k].char_end = headings[final].char_end
                    /\ merged[k].page = headings[first].page
                    /\ \A j \in 2..Len(members) :
                          /\ members[j].page = members[1].page
                          /\ WithinOnePt(members[j], members[2])
                    /\ WithinOnePt(members[1], members[2])
              /\ (/\ first < Len(headings)
                  /\ SectionNumMatch(StrStrip(headings[first].heading))
                  /\ headings[first + 1].page = headings[first].page
                  /\ WithinOnePt(headings[first], headings[first + 1]))
                 => sizes[k] > 1

\* C22: _merge_heading_fragments merges a bare section-number heading with
\* the heading that follows it into one heading "<number> <title>", from the
\* char_start of the first fragment to the char_end of the last one merged,
\* when both are on one page and their font sizes are within 1pt; headings
\* on different pages or with differing font size stay separate, and no
\* heading is reordered or dropped.
C22_MergeKeepsEveryHeading ==
    [][MergeStep =>
          \E sizes \in Compositions(Len(p_headings)) :
              MergedInGroups(p_headings, p_headings', sizes)]_vars

\* "1" and "Intro" were merged and a heading of another size stayed apart
C22_Witness ==
    /\ p_stage = "merged"
    /\ Len(p_headings) = 2
    /\ p_headings[1].heading = <<"1"," ","I","n","t","r","o">>
    /\ p_headings[1].char_start = 0
    /\ p_headings[2].heading = TxtResults

----------------------------------------------------------------------------
(* Claims about link extraction                                            *)

\* How many of the links satisfy test
CountLinks(links, test(_)) == Cardinality({k \in 1..Len(links) : test(links[k])})

\* The appearances of a destination among the named annotations: the runs
\* of consecutive fragments with that destination on one page
Appearances(named, dest) ==
    Cardinality({k \in 1..Len(named) :
        /\ named[k].dest = dest
        /\ k > 1 => ~(named[k - 1].dest = dest /\ named[k - 1].page = named[k].page)})

\* C23: every appearance of a citation destination yields its own Link,
\* consecutive same-destination same-page fragments being one appearance; a
\* non-citation named destination, an external URL and an internal page-jump
\* destination each yield a Link only for their first appearance.
C23_DedupExceptCitations ==
    p_stage = "done" =>
        LET annots == input.annots
            named == NamedInOrder(annots)
            of(kind) == {k \in 1..Len(annots) : annots[k].kind = kind}
        IN  /\ \A k \in of("uri") :
                  annots[k].uri # << >> =>
                      CountLinks(p_links, LAMBDA l : l.kind = "external" /\ l.url = annots[k].uri) = 1
            /\ \A k \in of("goto") :
                  CountLinks(p_links, LAMBDA l : /\ l.kind = "internal"
                                                 /\ l.dest_name = << >>
                                                 /\ l.target_page = annots[k].target_page) = 1
            /\ \A k \in 1..Len(named) :
                  CountLinks(p_links, LAMBDA l : l.dest_name = named[k].dest)
                     = IF IsCiteDest(named[k].dest) THEN Appearances(named, named[k].dest) ELSE 1

\* s is a bracketed numeric marker: "[", digit groups separated by one of
\* , ; - or an en dash with optional white space around it, "]"
NumericMarker(s) ==
    /\ Len(s) >= 3
    /\ s[1] = "[" /\ s[Len(s)] = "]"
    /\ IsDigit(s[2]) /\ IsDigit(s[Len(s) - 1])
    /\ \A k \in 2..(Len(s) - 1) : IsDigit(s[k]) \/ IsSpace(s[k]) \/ s[k] \in CiteSeparators
    /\ \A a, b \in 2..(Len(s) - 1) :
          (/\ a + 1 < b /\ IsDigit(s[a]) /\ IsDigit(s[b])
           /\ \A k \in (a + 1)..(b - 1) : ~IsDigit(s[k]))
          => Cardinality({k \in (a + 1)..(b - 1) : s[k] \in CiteSeparators}) = 1

\* The bracketed numeric markers of text, as <<start, end>> offsets
MarkersIn(text) ==
    {se \in (0..Len(text)) \X (0..Len(text)) :
        /\ se[1] < se[2]
        /\ text[se[1] + 1] = "["
        /\ NumericMarker(Slice(text, se[1], se[2]))}

\* The links that _detect_citations contributed to p_links
DetectedLinks == SelectSeq(p_links, LAMBDA l : l.kind = "citation" /\ l.dest_name = << >>)

\* C24: _detect_citations returns exactly one citation Link per distinct
\* bracketed numeric marker text, in order of first occurrence, whose span
\* is the character range of the marker's first occurrence, with page 0;
\* bracketed non-numeric text yields no link; "As shown in [1], the method
\* works." gives one link "[1]" with span (12,15).
C24_OneLinkPerMarker ==
    p_stage = "done" =>
        LET found == DetectedLinks
            markers == MarkersIn(p_raw_text)
        IN  /\ \A k \in 1..Len(found) :
                  /\ <<found[k].span.start, found[k].span.end>> \in markers
                  /\ found[k].text = Slice(p_raw_text, found[k].span.start, found[k].span.end)
                  /\ found[k].page = 0
                  /\ \A se \in markers :
                        Slice(p_raw_text, se[1], se[2]) = found[k].text
                           => found[k].span.start <= se[1]
            /\ \A se \in markers :
                  Cardinality({k \in 1..Len(found) :
                                  found[k].text = Slice(p_raw_text, se[1], se[2])}) = 1
            /\ \A j, k \in 1..Len(found) : j < k => found[j].span.start < found[k].span.start
            /\ p_raw_text = TxtShown =>
                  /\ Len(found) = 1
                  /\ found[1].text = <<"[","1","]">>
                  /\ found[1].span = [start |-> 12, end |-> 15]

\* A marker that occurs twice, a second marker and a bracketed letter
C24_Witness ==
    /\ p_stage = "done"
    /\ input.lines = Paged(<<Ln(TxtTwoMarkers, 100, FALSE), Ln(TxtNumCite, 100, FALSE)>>, 1)
    /\ Len(DetectedLinks) = 2
    /\ DetectedLinks[2].span = [start |-> 7, end |-> 10]

\* C25: the primary spans of a parsed Document's sections cover the full
\* document: the first one starts at offset 0, the last one ends at
\* len(raw_text), and every character offset of raw_text lies in exactly one
\* section's primary span.
C25_SpansCoverDocument ==
    p_stage = "done" =>
        /\ p_sections[1].spans[1].start = 0
        /\ p_sections[Len(p_sections)].spans[1].end = Len(p_raw_text)
        /\ \A c \in 0..(Len(p_raw_text) - 1) :
              Cardinality({i \in 1..Len(p_sections) :
                              /\ p_sections[i].spans[1].start <= c
                              /\ c < p_sections[i].spans[1].end}) = 1

----------------------------------------------------------------------------
(* models.py, layout.py: what save_layout / load_layout and Document.save / *)
(* Document.load do to the fields.  The file holds the JSON value that      *)
(* json.dumps(asdict(...)) wrote: a dict is a record over its keys, a list  *)
(* a sequence; numbers and strings come back from json.loads as written.    *)

MaxSaved == 2

\* dict.get(key, default)
DictGet(d, key, default) == IF key \in DOMAIN d THEN d[key] ELSE default

MkBox(y0, page) == [x0 |-> 1, y0 |-> y0, x1 |-> 5, y1 |-> y0 + 2, page |-> page]

\* asdict(Box) and Box(**b)
BoxAsDict(b) == [x0 |-> b.x0, y0 |-> b.y0, x1 |-> b.x1, y1 |-> b.y1, page |-> b.page]
BoxFromDict(d) == [x0 |-> d.x0, y0 |-> d.y0, x1 |-> d.x1, y1 |-> d.y1, page |-> d.page]

\* asdict(LayoutElement)
ElementAsDict(e) ==
    [kind |-> e.kind, box |-> BoxAsDict(e.box), confidence |-> e.confidence,
     caption |-> e.caption, label |-> e.label, image_path |-> e.image_path]

\* LayoutElement(kind=..., box=..., confidence=..., caption=..., label=...)
\* as load_layout and Document.load construct it: image_path keeps its default
ElementFromDict(d) ==
    [kind |-> d.kind, box |-> BoxFromDict(d.box), confidence |-> d.confidence,
     caption |-> DictGet(d, "caption", ""), label |-> DictGet(d, "label", ""),
     image_path |-> ""]

\* asdict(Span) and the Span(...) of Document.load
SpanAsDict(s) == [start |-> s.start, end |-> s.end,
                  boxes |-> [k \in 1..Len(s.boxes) |-> BoxAsDict(s.boxes[k])]]
SpanFromDict(d) ==
    LET boxes == DictGet(d, "boxes", << >>)
    IN  [start |-> d.start, end |-> d.end,
         boxes |-> [k \in 1..Len(boxes) |-> BoxFromDict(boxes[k])]]

\* Document.save: asdict(self)
DocumentAsDict(doc) ==
    [metadata |-> doc.metadata,
     sections |-> [i \in 1..Len(doc.sections) |->
        LET s == doc.sections[i]
        IN  [heading |-> s.heading, level |-> s.level, content |-> s.content,
             sentences |-> [k \in 1..Len(s.sentences) |->
                [text |-> s.sentences[k].text, span |-> SpanAsDict(s.sentences[k].span),
                 page |-> s.sentences[k].page]],
             spans |-> [k \in 1..Len(s.spans) |-> SpanAsDict(s.spans[k])],
             page_start |-> s.page_start, page_end |-> s.page_end]],
     raw_text |-> doc.raw_text,
     pages |-> doc.pages,
     links |-> [k \in 1..Len(doc.links) |->
        LET lk == doc.links[k]
        IN  [kind |-> lk.kind, text |-> lk.text, url |-> lk.url,
             target_page |-> lk.target_page, page |-> lk.page,
             span |-> SpanAsDict(lk.span), target_xy |-> lk.target_xy,
             dest_name |-> lk.dest_name]],
     layout_elements |-> [k \in 1..Len(doc.layout_elements) |->
                             ElementAsDict(doc.layout_elements[k])]]

\* Document.load
DocumentFromDict(data) ==
    LET sections == DictGet(data, "sections", << >>)
        links == DictGet(data, "links", << >>)
        layout_elements == DictGet(data, "layout_elements", << >>)
    IN  [metadata |-> DictGet(data, "metadata", [title |-> "", arxiv_id |-> ""]),
         sections |-> [i \in 1..Len(sections) |->
            LET s == sections[i]
                sentences == DictGet(s, "sentences", << >>)
                spans == DictGet(s, "spans", << >>)
            IN  [heading |-> s.heading, level |-> s.level, content |-> s.content,
                 sentences |-> [k \in 1..Len(sentences) |->
                    [text |-> sentences[k].text, span |-> SpanFromDict(sentences[k].span),
                     page |-> sentences[k].page]],
                 spans |-> [k \in 1..Len(spans) |-> SpanFromDict(spans[k])],
                 page_start |-> DictGet(s, "page_start", 0),
                 page_end |-> DictGet(s, "page_end", 0)]],
         raw_text |-> DictGet(data, "raw_text", ""),
         pages |-> DictGet(data, "pages", << >>),
         links |-> [k \in 1..Len(links) |->
            LET lk == links[k]
            IN  [kind |-> lk.kind, text |-> lk.text, url |-> lk.url,
                 target_page |-> lk.target_page, page |-> lk.page,
                 span |-> SpanFromDict(lk.span),
                 target_xy |-> DictGet(lk, "target_xy", << >>),
                 dest_name |-> DictGet(lk, "dest_name", "")]],
         layout_elements |-> [k \in 1..Len(layout_elements) |->
                                 ElementFromDict(layout_elements[k])]]

\* Elements with and without a caption, a label and a cropped image
SavedElementPool ==
    {[kind |-> kind, box |-> MkBox(3, 0), confidence |-> 9, caption |-> caption,
      label |-> label, image_path |-> image_path] :
        kind \in {"figure", "table"}, caption \in {"", "A plot."},
        label \in {"", "Figure 1"}, image_path \in {"", "fig1.png"}}

SavedElementSeqs == {<< >>} \cup SeqsUpTo(SavedElementPool, MaxSaved)

\* One-section Documents with a sentence, a link and the layout elements
SavedDocs ==
    {[metadata |-> [title |-> "T", arxiv_id |-> "2301.00001"],
      sections |-> <<[heading |-> "Intro", level |-> 1, content |-> "Aa bb.",
                      sentences |-> <<[text |-> "Aa bb.",
                                       span |-> [start |-> 6, end |-> 12, boxes |-> << >>],
                                       page |-> 0]>>,
                      spans |-> <<[start |-> 0, end |-> 12, boxes |-> <<MkBox(1, 0)>>]>>,
                      page_start |-> 0, page_end |-> 0]>>,
      raw_text |-> "Intro\nAa bb.",
      pages |-> << >>,
      links |-> <<[kind |-> "internal", text |-> "Aa", url |-> "", target_page |-> 1,
                   page |-> 0, span |-> [start |-> 6, end |-> 8, boxes |-> << >>],
                   target_xy |-> <<7, 8>>, dest_name |-> "sec.1"]>>,
      layout_elements |-> elements] : elements \in SavedElementSeqs}

\* save_layout(paper_id, elements)
CallSaveLayout ==
    /\ last.op = "none"
    /\ \E elements \in SavedElementSeqs :
          last' = [op |-> "save_layout", arg |-> elements, loaded |-> << >>, ret |-> << >>,
                   wrote |-> [k \in 1..Len(elements) |-> ElementAsDict(elements[k])]]
    /\ UNCHANGED <<fs, pc, job, loaded, solo, n_added, n_calls, notStore>>

\* load_layout(paper_id) on the file save_layout wrote
CallLoadLayout ==
    /\ last.op = "save_layout"
    /\ last' = [last EXCEPT !.op = "load_layout", !.loaded = last.wrote,
                   !.ret = [k \in 1..Len(last.wrote) |-> ElementFromDict(last.wrote[k])]]
    /\ UNCHANGED <<fs, pc, job, loaded, solo, n_added, n_calls, notStore>>

\* doc.save(path)
CallDocumentSave ==
    /\ last.op = "none"
    /\ \E doc \in SavedDocs :
          last' = [op |-> "Document.save", arg |-> doc, loaded |-> << >>, ret |-> << >>,
                   wrote |-> DocumentAsDict(doc)]
    /\ UNCHANGED <<fs, pc, job, loaded, solo, n_added, n_calls, notStore>>

\* Document.load(path) on the file doc.save wrote
CallDocumentLoad ==
    /\ last.op = "Document.save"
    /\ last' = [last EXCEPT !.op = "Document.load", !.loaded = last.wrote,
                   !.ret = DocumentFromDict(last.wrote)]
    /\ UNCHANGED <<fs, pc, job, loaded, solo, n_added, n_calls, notStore>>

PersistNext ==
    \/ CallSaveLayout
    \/ CallLoadLayout
    \/ CallDocumentSave
    \/ CallDocumentLoad

InitPersist ==
    /\ ParseIdle
    /\ RenderIdle
    /\ StoreIdle

\* One save followed by one load, of a layout file or of a Document
SpecPersist == InitPersist /\ [][PersistNext]_vars

\* C26: load_layout after save_layout returns elements equal to the saved
\* ones in every field (kind, box, confidence, caption, label, image_path),
\* and Document.load after Document.save returns a Document equal to the
\* saved one, including its layout_elements.
C26_RoundTrip ==
    /\ last.op = "load_layout" => last.ret = last.arg
    /\ last.op = "Document.load" => last.ret = last.arg

\* What does come back: every field but image_path, which is reset to ""
AllButImagePath(elements) == [k \in 1..Len(elements) |-> [elements[k] EXCEPT !.image_path = ""]]

RoundTripButImagePath ==
    /\ last.op = "load_layout" => last.ret = AllButImagePath(last.arg)
    /\ last.op = "Document.load" =>
          last.ret = [last.arg EXCEPT !.layout_elements = AllButImagePath(@)]

----------------------------------------------------------------------------
(* storage.py: _sanitize_paper_id and the cache paths                      *)

MaxIdLen == 4

\* str.replace(old, new) for one-character old and new
ReplaceChar(text, old, new) == [k \in 1..Len(text) |-> IF text[k] = old THEN new ELSE text[k]]

\* while paper_id.startswith("."): paper_id = paper_id[1:]
DropLeadingDots(text) ==
    LET others == {k \in 1..Len(text) : text[k] # "."}
    IN  IF others = {} THEN << >> ELSE SubSeq(text, SetMin(others), Len(text))

\* Only strip() and the leading dots are handled, separators are kept
SanitizeKeepSeparators(paper_id) ==
    LET safe_id == DropLeadingDots(StrStrip(paper_id))
    IN  [raised |-> safe_id = << >>, value |-> safe_id]

\* _sanitize_paper_id: raised is the ValueError
SanitizePaperId(paper_id) ==
    LET replaced == ReplaceChar(ReplaceChar(StrStrip(paper_id), "/", "_"), "\\", "_")
        safe_id == DropLeadingDots(replaced)
    IN  [raised |-> safe_id = << >>, value |-> safe_id]

\* pathlib: "/" separates components everywhere, "\" as well on Windows
PathSeparators == {"/", "\\"}

\* The components of a relative or absolute path string: empty and "."
\* components are dropped, ".." is kept
RECURSIVE PathParts(_)
PathParts(text) ==
    LET seps == {k \in 1..Len(text) : text[k] \in PathSeparators}
        cut == IF seps = {} THEN Len(text) + 1 ELSE SetMin(seps)
        part == SubSeq(text, 1, cut - 1)
        rest == IF cut > Len(text) THEN << >> ELSE PathParts(SubSeq(text, cut + 1, Len(text)))
    IN  IF text = << >> THEN << >>
        ELSE IF part = << >> \/ part = <<".">> THEN rest
        ELSE <<part>> \o rest

\* PAPERS_DIR = Path.home() / ".papers", as path components
PapersDir == << <<"h","o","m","e">>, <<".","p","a","p","e","r","s">> >>

\* base / name: a name that starts with a separator replaces the base
PathJoin(base, name) ==
    IF name # << >> /\ name[1] \in PathSeparators THEN PathParts(name)
    ELSE base \o PathParts(name)

\* The files of a paper directory and the functions that build their paths
CacheFileOf ==
    [pdf_path |-> <<"p","a","p","e","r",".","p","d","f">>,
     parsed_path |-> <<"p","a","r","s","e","d",".","j","s","o","n">>]

IdChars == {"a", ".", "/", "\\", " ", "_"}

PaperIdInputs == {<< >>} \cup SeqsUpTo(IdChars, MaxIdLen)

\* paper_dir(paper_id): the directory path, which mkdir creates
CallPaperDir ==
    /\ last.op = "none"
    /\ \E paper_id \in PaperIdInputs :
          LET safe == SanitizePaperId(paper_id)
              d == PathJoin(PapersDir, safe.value)
          IN  last' = [op |-> "paper_dir", arg |-> paper_id, loaded |-> safe,
                       ret |-> IF safe.raised THEN << >> ELSE d,
                       wrote |-> IF safe.raised THEN << >> ELSE d]
    /\ UNCHANGED <<fs, pc, job, loaded, solo, n_added, n_calls, notStore>>

\* pdf_path(paper_id), parsed_path(paper_id): paper_dir(paper_id) / file name
CallCachePath ==
    /\ last.op = "none"
    /\ \E paper_id \in PaperIdInputs, f \in DOMAIN CacheFileOf :
          LET safe == SanitizePaperId(paper_id)
              d == PathJoin(PapersDir, safe.value)
          IN  last' = [op |-> f, arg |-> paper_id, loaded |-> safe,
                       ret |-> IF safe.raised THEN << >> ELSE PathJoin(d, CacheFileOf[f]),
                       wrote |-> IF safe.raised THEN << >> ELSE d]
    /\ UNCHANGED <<fs, pc, job, loaded, solo, n_added, n_calls, notStore>>

PathNext ==
    \/ CallPaperDir
    \/ CallCachePath

InitPath ==
    /\ ParseIdle
    /\ RenderIdle
    /\ StoreIdle

\* One path-building call on one bounded paper_id
SpecPath == InitPath /\ [][PathNext]_vars

PathCalled == last.op \in {"paper_dir"} \cup DOMAIN CacheFileOf

\* C27: _sanitize_paper_id returns a non-empty string with no "/" and no "\"
\* that does not start with ".", or raises ValueError when nothing remains;
\* every cache path built from a paper_id (paper_dir and the files in it) is
\* a direct child of the papers root directory, the files direct children
\* of that directory.
C27_SanitizedIsDirectChild ==
    PathCalled =>
        LET safe == last.loaded
            stripped == StrStrip(last.arg)
        IN  /\ safe.raised <=> \A k \in 1..Len(stripped) : stripped[k] = "."
            /\ ~safe.raised =>
                  /\ safe.value # << >>
                  /\ \A k \in 1..Len(safe.value) : safe.value[k] \notin {"/", "\\"}
                  /\ safe.value[1] # "."
                  /\ last.wrote = Append(PapersDir, safe.value)
                  /\ last.op = "paper_dir" => last.ret = last.wrote
                  /\ last.op \in DOMAIN CacheFileOf =>
                        last.ret = Append(last.wrote, CacheFileOf[last.op])

\* pdf_path("../a"): the separator is replaced, the leading dots are dropped
\* and the file is paper.pdf in the directory "_a" of the papers root
C27_Witness ==
    /\ last.op = "pdf_path"
    /\ last.arg = <<".", ".", "/", "a">>
    /\ last.loaded.value = <<"_", "a">>
    /\ Len(last.ret) = Len(PapersDir) + 2

----------------------------------------------------------------------------
(* Claims about sentence spans                                             *)

\* C28: every Sentence.span produced by _split_sentences lies inside its
\* section's spans[0] and, whenever the segmenter returns the sentence as an
\* exact substring of the section content, raw_text[span.start:span.end]
\* equals the sentence text, whether or not the heading text and the
\* surrounding whitespace were stripped from the content.
C28_SentenceSpanIsOwnRange ==
    p_stage \in {"split", "done"} =>
        \A i \in 1..Len(p_sections) :
            \A k \in 1..Len(p_sections[i].sentences) :
                LET sent == p_sections[i].sentences[k]
                    sec == p_sections[i].spans[1]
                IN  /\ sec.start <= sent.span.start
                    /\ sent.span.end <= sec.end
                    /\ StrContains(p_sections[i].content, sent.text) =>
                          Slice(p_raw_text, sent.span.start, sent.span.end) = sent.text

----------------------------------------------------------------------------
(* storage.py, renderer.py: the header and its auto-suppression.  The clock *)
(* advances between commands; one render_header call reads it as `now`.     *)

HeaderTtl == 300

MaxTime == 900

MaxHeaderCalls == 4

\* was_header_shown_recently(paper_id) at time t
WasHeaderShownRecently(file, paper_id, t) ==
    /\ file # NoHeader
    /\ file.paper_id = paper_id
    /\ t - file.timestamp < HeaderTtl

\* mark_header_shown(paper_id) at time t
MarkHeaderShown(paper_id, t) == [paper_id |-> paper_id, timestamp |-> t]

\* The record is written only when the header is printed
RenderHeaderNoRefresh(file, paper_id, t) ==
    IF paper_id # "" /\ WasHeaderShownRecently(file, paper_id, t)
    THEN [printed |-> FALSE, file |-> file]
    ELSE [printed |-> TRUE,
          file |-> IF paper_id # "" THEN MarkHeaderShown(paper_id, t) ELSE file]

\* render_header(doc), paper_id = doc.metadata.arxiv_id or "": whether the
\* panel is printed and the .last_header file afterwards
RenderHeader(file, paper_id, t) ==
    IF paper_id # "" /\ WasHeaderShownRecently(file, paper_id, t)
    THEN [printed |-> FALSE, file |-> MarkHeaderShown(paper_id, t)]
    ELSE [printed |-> TRUE,
          file |-> IF paper_id # "" THEN MarkHeaderShown(paper_id, t) ELSE file]

\* Two papers and a Document without an arxiv_id
HeaderPaperIds == {"2301.00001", "2302.00002", ""}

\* Seconds between two commands: just below, at and well below the TTL
Delays == {HeaderTtl - 1, HeaderTtl, 150}

\* A command that calls render_header(doc)
CallRenderHeader ==
    /\ n_calls < MaxHeaderCalls
    /\ \E paper_id \in HeaderPaperIds :
          LET r == RenderHeader(last_header, paper_id, now)
          IN  /\ last_header' = r.file
              /\ last' = [op |-> "render_header", arg |-> paper_id, loaded |-> last_header,
                          ret |-> r.printed, wrote |-> now]
    /\ n_calls' = n_calls + 1
    /\ UNCHANGED <<fs, pc, job, loaded, solo, n_added, now, notHeader>>

\* Time passes between two commands
Tick ==
    /\ last.op = "render_header"
    /\ last.wrote = now
    /\ n_calls < MaxHeaderCalls
    /\ \E d \in Delays :
          /\ now + d <= MaxTime
          /\ now' = now + d
    /\ UNCHANGED <<fs, last, pc, job, loaded, solo, n_added, n_calls, last_header, notHeader>>

HeaderNext ==
    \/ CallRenderHeader
    \/ Tick

InitHeader ==
    /\ ParseIdle
    /\ RenderIdle
    /\ StoreIdle

\* Commands that print the header, with time passing between them
SpecHeader == InitHeader /\ [][HeaderNext]_vars

HeaderCall == n_calls' = n_calls + 1 /\ last'.op = "render_header"

----------------------------------------------------------------------------
(* renderer.py: render_goto                                                *)

\* The first entry of the registry with that ref_id (0: none)
FindEntry(registry, ref_id) ==
    LET hits == {k \in 1..Len(registry) : registry[k].ref_id = ref_id}
    IN  IF hits = {} THEN 0 ELSE SetMin(hits)

\* The first section whose heading equals the entry's target (0: none)
SectionByHeading(sections, target) ==
    LET hits == {i \in 1..Len(sections) : sections[i].heading = target}
    IN  IF hits = {} THEN 0 ELSE SetMin(hits)

\* The first layout element whose label equals the entry's target (0: none)
ElementByLabel(elements, target) ==
    LET hits == {k \in 1..Len(elements) : elements[k].label = target}
    IN  IF hits = {} THEN 0 ELSE SetMin(hits)

\* render_goto(doc, ref_id, show_header): the value returned, the kind of
\* thing displayed, which section or layout element it is (0: none) and
\* whether render_header was called
RenderGoto(doc, ref_id, show_header) ==
    LET registry == BuildRefRegistry(doc)
        k == FindEntry(registry, ref_id)
        entry == registry[k]
        sec == SectionByHeading(doc.sections, entry.target)
        elem == ElementByLabel(doc.layout_elements, entry.target)
        none == [ret |-> FALSE, kind |-> "none", shown |-> 0, header |-> FALSE]
    IN  IF k = 0 THEN none
        ELSE IF entry.kind = "section"
        THEN IF sec = 0 THEN none
             ELSE [ret |-> TRUE, kind |-> "section", shown |-> sec, header |-> show_header]
        ELSE IF entry.kind \in {"external", "citation"}
        THEN [ret |-> TRUE, kind |-> entry.kind, shown |-> 0, header |-> show_header]
        ELSE IF entry.kind \in {"figure", "table", "equation"}
        THEN IF elem = 0 THEN none
             ELSE [ret |-> TRUE, kind |-> entry.kind, shown |-> elem, header |-> show_header]
        ELSE none

GotoSection(heading, text) ==
    [heading |-> heading, level |-> 1, content |-> text,
     sentences |-> <<[text |-> text, span |-> [start |-> 0, end |-> Len(text)], page |-> 0]>>,
     spans |-> <<[start |-> 0, end |-> Len(text)]>>, page_start |-> 0, page_end |-> 0]

MaxGotoSections == 3

\* Sections "Intro", "Method" and "Appendix", each with its own text; a paper
\* may have the same heading more than once
GotoSectionPool ==
    {GotoSection(TxtIntro, <<"a">>), GotoSection(TxtIntro, <<"b">>),
     GotoSection(TxtMethod, <<"c">>), GotoSection(TxtMethod, <<"d">>),
     GotoSection(<<"A","p","p","e","n","d","i","x">>, <<"e">>)}

\* No section occurs twice in a document
GotoSectionSeqs ==
    {sections \in {<< >>} \cup SeqsUpTo(GotoSectionPool, MaxGotoSections) :
        \A i, j \in 1..Len(sections) : i # j => sections[i] # sections[j]}

GotoDocs ==
    {MkDocument(sections, << >>, links) :
        sections \in GotoSectionSeqs,
        links \in {<< >>, <<MkLink("external", <<"A","a">>, <<"u">>, NoPos, 0,
                                   [start |-> 0, end |-> 1], << >>)>>}}

GotoPaperId == "2301.00001"

GotoRefIds == {RefId("s", i) : i \in 1..(MaxGotoSections + 1)} \cup {"e1", "c1", "f1", "x"}

\* paper goto <ref_id>: render_goto(doc, ref_id), with the header it prints
CallRenderGoto ==
    /\ last.op = "none"
    /\ \E ref_id \in GotoRefIds, show_header \in BOOLEAN :
          LET r == RenderGoto(r_doc, ref_id, show_header)
              h == RenderHeader(last_header, GotoPaperId, now)
          IN  /\ last' = [op |-> "render_goto", arg |-> ref_id, loaded |-> last_header,
                          ret |-> r, wrote |-> r.header /\ h.printed]
              /\ last_header' = IF r.header THEN h.file ELSE last_header
    /\ UNCHANGED <<fs, pc, job, loaded, solo, n_added, n_calls, now, notHeader>>

GotoNext == CallRenderGoto

InitGoto ==
    /\ ParseIdle
    /\ StoreIdle
    /\ RenderInit(GotoDocs)

\* One render_goto call on every bounded Document
SpecGoto == InitGoto /\ [][GotoNext]_vars

\* C29: render_goto(doc, "s<i>") for 1 <= i <= len(doc.sections) displays
\* the i-th section of the document and returns True, also when several
\* sections have the same heading text; a ref_id that is not in the
\* registry returns False.
C29_GotoShowsIthSection ==
    last.op = "render_goto" =>
        /\ \A i \in 1..Len(r_doc.sections) :
              last.arg = RefId("s", i) =>
                  /\ last.ret.ret
                  /\ last.ret.kind = "section"
                  /\ last.ret.shown = i
        /\ (\A k \in 1..Len(BuildRefRegistry(r_doc)) :
               BuildRefRegistry(r_doc)[k].ref_id # last.arg) => ~last.ret.ret

\* What holds: the section displayed is the first one whose heading is that
\* of the i-th section
GotoShowsFirstWithHeading ==
    last.op = "render_goto" =>
        \A i \in 1..Len(r_doc.sections) :
            last.arg = RefId("s", i) =>
                /\ last.ret.ret
                /\ r_doc.sections[last.ret.shown].heading = r_doc.sections[i].heading
                /\ \A j \in 1..(last.ret.shown - 1) :
                      r_doc.sections[j].heading # r_doc.sections[i].heading

============================================================================
